---- MODULE Spec2Model ----
(***************************************************************************)
(* Hatch: MCP host configuration management.                               *)
(*                                                                         *)
(* The model covers hatch/mcp_host_config: the MCPServerConfig validators, *)
(* the six host strategies (read_configuration / write_configuration), the *)
(* MCPHostRegistry and the MCPHostConfigurationManager operations          *)
(* configure_server, remove_server and sync_environment_to_hosts.          *)
(* The backup manager (hatch/mcp_host_config/backup.py) is modelled from   *)
(* its contract: create_backup copies the host file into the host's        *)
(* backup directory.                                                       *)
(***************************************************************************)
EXTENDS Integers, Sequences, FiniteSets, TLC

(***************************************************************************)
(* Bounds of the model.                                                    *)
(***************************************************************************)
\* number of manager calls explored in one run
MaxOps == 1

(***************************************************************************)
(* Optional values: None is the empty tuple, Some(x) the 1-tuple.          *)
(* Strings that the code inspects (command, url) are tuples of tokens so   *)
(* that strip(), startswith() and is_absolute() are computed, not assumed. *)
(* A message is the tuple of the pieces it is formatted from; the empty     *)
(* message is the empty tuple.                                             *)
(***************************************************************************)
None == << >>
Some(x) == << x >>
IsNone(o) == o = << >>
IsSome(o) == o # << >>
The(o) == o[1]

\* str.strip(): drop leading and trailing blanks
RECURSIVE LStrip(_)
LStrip(s) == IF s # << >> /\ Head(s) = " " THEN LStrip(Tail(s)) ELSE s
RECURSIVE RStrip(_)
RStrip(s) == IF s # << >> /\ s[Len(s)] = " " THEN RStrip(SubSeq(s, 1, Len(s) - 1)) ELSE s
Strip(s) == RStrip(LStrip(s))

\* str.startswith(('http://', 'https://'))
StartsWithHttp(s) == s # << >> /\ Head(s) \in {"http://", "https://"}

\* pathlib.Path(command).is_absolute() on a POSIX platform
IsAbsolute(s) == s # << >> /\ Head(s) = "/"

(***************************************************************************)
(* MCPHostType and the registry.                                           *)
(***************************************************************************)
MCPHostType == {"claude-desktop", "claude-code", "vscode", "cursor", "lmstudio", "gemini"}

\* a hostname that is no member of the enumeration
UnknownHost == "bogus"
Hostnames == MCPHostType \cup {UnknownHost}

\* the strategy class registered for each host type (register_host_strategy)
StrategyOf(h) ==
    CASE h \in {"claude-desktop", "claude-code"} -> "claude"
      [] h \in {"cursor", "lmstudio"} -> "cursor"
      [] h = "vscode" -> "vscode"
      [] h = "gemini" -> "gemini"

\* the order in which strategies.py registers the strategies
RegistrationOrder == <<"claude-desktop", "claude-code", "cursor", "lmstudio", "vscode", "gemini">>

\* the keys of MCPHostRegistry._strategies
Registered == {RegistrationOrder[i] : i \in 1..Len(RegistrationOrder)}

\* str() of the ValueError that MCPHostType(hostname) raises for a value
\* outside the enumeration
EnumValueError(hostname) == <<"'", hostname, "' is not a valid MCPHostType">>

\* str() of the ValueError of MCPHostRegistry.get_strategy for a host type
\* without a registered strategy: it lists the registered ones
UnknownHostTypeError(host_type) ==
    <<"Unknown host type: '", host_type, "'. Available: ">> \o RegistrationOrder

\* "host_type = MCPHostType(hostname); strategy = get_strategy(host_type)":
\* the message of the exception raised, or None when a strategy is found.
\* The enumeration is consulted first.
ResolveError(hostname) ==
    IF hostname \notin MCPHostType THEN Some(EnumValueError(hostname))
    ELSE IF hostname \notin Registered THEN Some(UnknownHostTypeError(hostname))
    ELSE None

\* MCPHostStrategy.get_config_key and its overrides
get_config_key(h) == IF h = "vscode" THEN "servers" ELSE "mcpServers"

\* platform.system() values the strategies distinguish
Systems == {"Linux", "Other"}

\* get_config_path: None on a platform the strategy does not know
get_config_path(h, sys) ==
    IF h \in {"claude-desktop", "lmstudio", "vscode"} /\ sys = "Other"
    THEN None ELSE Some(h)

(***************************************************************************)
(* MCPServerConfig.  Keyword arguments, and a server entry of a host file, *)
(* are a dict: a function from the keys that are present to their values.  *)
(* The constructed object is a record of optional fields; extra holds the  *)
(* unknown keys pydantic keeps (extra = "allow").                          *)
(***************************************************************************)
KnownFields == {"name", "command", "args", "env", "url", "headers"}

Get(d, k) == IF k \in DOMAIN d THEN Some(d[k]) ELSE None

\* the declared fields and the extra fields of the keyword arguments
FromDict(d) ==
    [name |-> Get(d, "name"), command |-> Get(d, "command"), args |-> Get(d, "args"),
     env |-> Get(d, "env"), url |-> Get(d, "url"), headers |-> Get(d, "headers"),
     extra |-> [k \in (DOMAIN d) \ KnownFields |-> d[k]]]

\* field validator validate_command_not_empty
CommandFieldError(f) == IsSome(f.command) /\ Strip(The(f.command)) = << >>
\* field validator validate_url_format
UrlFieldError(f) == IsSome(f.url) /\ ~StartsWithHttp(The(f.url))

\* the value validate_command_not_empty returns: v.strip() if v else v
StrippedCommand(f) == IF IsSome(f.command) THEN Some(Strip(The(f.command))) ELSE None

\* the fields after field validation
AfterFields(f) == [f EXCEPT !.command = StrippedCommand(f)]

\* truthiness of an optional string (None and "" are falsy)
Truthy(o) == IsSome(o) /\ The(o) # << >>

\* (variant) command and url may be given together
ServerTypeError_AllowsBoth(f) ==
    IF ~Truthy(f.command) /\ ~Truthy(f.url) THEN "neither" ELSE "ok"

\* model validator validate_server_type
ServerTypeError(f) ==
    IF ~Truthy(f.command) /\ ~Truthy(f.url) THEN "neither"
    ELSE IF Truthy(f.command) /\ Truthy(f.url) THEN "both"
    ELSE "ok"

\* model validator validate_field_combinations
FieldCombinationError(f) ==
    IF IsSome(f.args) /\ IsNone(f.command) THEN "args"
    ELSE IF IsSome(f.env) /\ IsNone(f.command) THEN "env"
    ELSE IF IsSome(f.headers) /\ IsNone(f.url) THEN "headers"
    ELSE "ok"

\* the field validators that raise: pydantic runs every one of them and
\* reports their errors together
FieldErrors(f) ==
    (IF CommandFieldError(f) THEN {"command"} ELSE {})
    \cup (IF UrlFieldError(f) THEN {"url"} ELSE {})

\* (variant) the model validators run before the field validators
ValidationError_ModelFirst(d) ==
    LET f == FromDict(d) IN
    IF ServerTypeError(f) # "ok" THEN {ServerTypeError(f)}
    ELSE IF FieldCombinationError(f) # "ok" THEN {FieldCombinationError(f)}
    ELSE FieldErrors(f)

\* MCPServerConfig(**d): the rules the validation error reports, none when
\* the object is constructed.  Field validators run first; the model
\* validators run, in definition order, only when no field failed, and the
\* first one that raises ends the validation.
ValidationError(d) ==
    LET f == FromDict(d) IN
    IF FieldErrors(f) # {} THEN FieldErrors(f)
    ELSE IF ServerTypeError(AfterFields(f)) # "ok" THEN {ServerTypeError(AfterFields(f))}
    ELSE IF FieldCombinationError(AfterFields(f)) # "ok"
         THEN {FieldCombinationError(AfterFields(f))}
    ELSE {}

IsValidData(d) == ValidationError(d) = {}
\* the constructed object
MCPServerConfig(d) == AfterFields(FromDict(d))

is_local_server(c) == IsSome(c.command)
is_remote_server(c) == IsSome(c.url)

\* model_dump(exclude_none=True): a dict of every declared field that is not
\* None (the name included) and of every extra field.
model_dump(c) ==
    LET keys == {k \in KnownFields : IsSome(c[k])} \cup DOMAIN c.extra IN
    [k \in keys |-> IF k \in KnownFields THEN The(c[k]) ELSE c.extra[k]]

(***************************************************************************)
(* validate_server_config of the strategies.                               *)
(***************************************************************************)
\* (variant) the Claude family does not look at the command's path
validate_server_config_AcceptsAll(h, c) == IsSome(c.command) \/ IsSome(c.url)

validate_server_config(h, c) ==
    CASE StrategyOf(h) = "claude" ->
            IF Truthy(c.command) THEN IsAbsolute(The(c.command)) ELSE TRUE
      [] StrategyOf(h) = "cursor" ->
            IF Truthy(c.command) THEN TRUE ELSE Truthy(c.url)
      [] OTHER -> IsSome(c.command) \/ IsSome(c.url)

(***************************************************************************)
(* Files.  A file is absent, text that json.load rejects, or a JSON        *)
(* document; fmt is the layout of its bytes, so that two files are         *)
(* byte-identical exactly when the records are equal.  A JSON value is a   *)
(* tagged record: an object carries the function from its keys to values.  *)
(***************************************************************************)
JObj(m) == [t |-> "obj", v |-> m]
JList == [t |-> "list", v |-> << >>]
JStr(x) == [t |-> "str", v |-> x]
JNull == [t |-> "null", v |-> << >>]

Absent == [kind |-> "absent", fmt |-> "none", doc |-> JNull]
\* text that is no JSON document: hand-damaged, or cut off while being written
Garbage == [kind |-> "text", fmt |-> "garbage", doc |-> JNull]
Partial == [kind |-> "text", fmt |-> "partial", doc |-> JNull]
JsonFile(f, d) == [kind |-> "json", fmt |-> f, doc |-> d]

\* Path.exists()
exists(f) == f.kind # "absent"
\* json.load succeeds
Loads(f) == f.kind = "json"
\* json.dump(value, f, indent=2): the bytes are laid out anew
json_dump(d) == JsonFile("indent2", d)

\* a function with one key added or replaced (dict[k] = v)
Put(m, k, x) == [j \in (DOMAIN m) \cup {k} |-> IF j = k THEN x ELSE m[j]]
\* a function without one key (del dict[k])
Del(m, k) == [j \in (DOMAIN m) \ {k} |-> m[j]]

(***************************************************************************)
(* HostConfiguration: the map from server name to MCPServerConfig.         *)
(***************************************************************************)
HostConfiguration == << >>
add_server(servers, name, c) == Put(servers, name, c)
del_server(servers, name) == IF name \in DOMAIN servers THEN Del(servers, name) ELSE servers

(***************************************************************************)
(* read_configuration (the same in the four strategy classes): every      *)
(* failure to read yields the empty configuration, and an entry that       *)
(* MCPServerConfig rejects is skipped.                                     *)
(***************************************************************************)
read_configuration(h, sys, file) ==
    IF IsNone(get_config_path(h, sys)) \/ ~exists(file) THEN HostConfiguration
    ELSE IF ~Loads(file) THEN HostConfiguration
    ELSE IF file.doc.t # "obj" THEN HostConfiguration
    ELSE IF get_config_key(h) \notin DOMAIN file.doc.v THEN HostConfiguration
    ELSE LET mcp_servers == file.doc.v[get_config_key(h)] IN
         IF mcp_servers.t # "obj" THEN HostConfiguration
         ELSE [n \in {x \in DOMAIN mcp_servers.v : IsValidData(mcp_servers.v[x])}
                 |-> MCPServerConfig(mcp_servers.v[n])]

(***************************************************************************)
(* write_configuration.  fault names the step the environment fails:      *)
(* "mkdir", "open" (creating the temp file), "dump" (serializing into it), *)
(* "verify" (Gemini's read-back) or "replace" (the rename); "none" lets    *)
(* every step succeed.                                                     *)
(***************************************************************************)
WriteFaults == {"mkdir", "open", "dump", "verify", "replace"}

\* servers_dict: model_dump of every server
servers_dict(servers) == [n \in DOMAIN servers |-> model_dump(servers[n])]

\* the existing configuration write_configuration starts from: the file's
\* document, or {} when there is no file or it cannot be loaded
existing_config(file) == IF exists(file) /\ Loads(file) THEN file.doc ELSE JObj(<< >>)

\* (variant) the document is rebuilt from the servers alone
updated_config_ServersOnly(h, existing, servers) ==
    JObj(Put(<< >>, get_config_key(h), JObj(servers_dict(servers))))

\* existing_config[get_config_key()] = servers_dict (_preserve_claude_settings
\* for the Claude family): only the managed key is assigned
updated_config(h, existing, servers) ==
    JObj(Put(existing.v, get_config_key(h), JObj(servers_dict(servers))))

\* (variant) the new bytes are written over the target itself
temp_path_IsTarget(h) == "target"

\* temp_path = config_path.with_suffix('.tmp'): the file the new bytes are
\* written to is the temp file, not the target
temp_path(h) == "temp"

\* a file written at temp_path
PutAtTempPath(o, h, content) ==
    IF temp_path(h) = "temp" THEN [o EXCEPT !.temp = content] ELSE [o EXCEPT !.file = content]

\* temp_path.replace(config_path): the target takes the temp file's bytes in
\* one step and the temp file is gone
Replace(o, h) ==
    IF temp_path(h) = "temp" THEN [o EXCEPT !.file = o.temp, !.temp = Absent] ELSE o

\* the except clause of the write: only Gemini unlinks the temp file
CleanUp(o, h) == IF StrategyOf(h) = "gemini" THEN PutAtTempPath(o, h, Absent) ELSE o

\* the outcome of write_configuration: its return value, the target file,
\* the temp file and whether the parent directory exists
write_configuration(h, sys, file, temp, dir, servers, fault) ==
    LET same == [ok |-> FALSE, file |-> file, temp |-> temp, dir |-> dir]
        made == [same EXCEPT !.dir = TRUE]
        existing == existing_config(file)
        new == json_dump(updated_config(h, existing, servers))
    IN
    IF IsNone(get_config_path(h, sys)) THEN same
    ELSE IF fault = "mkdir" /\ ~dir THEN same
    ELSE IF existing.t # "obj" THEN made
    ELSE IF fault = "open" THEN made
    ELSE IF fault = "dump" THEN CleanUp(PutAtTempPath(made, h, Partial), h)
    ELSE IF fault = "verify" /\ StrategyOf(h) = "gemini"
         THEN CleanUp(PutAtTempPath(made, h, new), h)
    ELSE IF fault = "replace" THEN CleanUp(PutAtTempPath(made, h, new), h)
    ELSE [Replace(PutAtTempPath(made, h, new), h) EXCEPT !.ok = TRUE]

(***************************************************************************)
(* The world the manager acts on: for every host its config file, the file *)
(* at temp_path, whether the parent directory of the config file exists,   *)
(* and the backups kept for the host, oldest first.                        *)
(***************************************************************************)
World(f, t, d, b) == [files |-> f, temps |-> t, dirs |-> d, backups |-> b]

(***************************************************************************)
(* create_backup of the backup manager: copies the config file into the    *)
(* host's backup directory and reports the copy's path.  The environment   *)
(* may make it fail: it then reports success=False ("backup_fail") or, as  *)
(* an injected collaborator may, raises ("backup_raise", and               *)
(* "backup_raise_empty" for an exception whose message is empty).          *)
(***************************************************************************)
BackupFaults == {"backup_fail", "backup_raise", "backup_raise_empty"}
Faults == {"none"} \cup WriteFaults \cup BackupFaults

create_backup(kept, file, hostname, fault) ==
    CASE fault = "backup_fail" ->
            [exc |-> None, success |-> FALSE, backup_path |-> None, kept |-> kept]
      [] fault = "backup_raise" ->
            [exc |-> Some(<<"backup error">>), success |-> FALSE, backup_path |-> None, kept |-> kept]
      [] fault = "backup_raise_empty" ->
            [exc |-> Some(<< >>), success |-> FALSE, backup_path |-> None, kept |-> kept]
      [] OTHER ->
            [exc |-> None, success |-> TRUE,
             backup_path |-> Some(<<hostname, Len(kept) + 1>>), kept |-> Append(kept, file)]

(***************************************************************************)
(* ConfigurationResult and its validator.                                  *)
(***************************************************************************)
MkResult(success, hostname, server_name, backup_path, error_message) ==
    [success |-> success, hostname |-> hostname, server_name |-> server_name,
     backup_created |-> IsSome(backup_path), backup_path |-> backup_path,
     error_message |-> error_message]

\* (variant) the validator accepts every result
validate_result_consistency_Off(r) == TRUE

\* validate_result_consistency: raises when success is false and the
\* message is None or empty
validate_result_consistency(r) ==
    r.success \/ (IsSome(r.error_message) /\ The(r.error_message) # << >>)

\* str() of the ValidationError that validator raises
ConsistencyMessage == <<"1 validation error for ConfigurationResult">>

\* the value a manager operation leaves: the world, and either the result
\* it returns or the fact that an exception left it
NoResult == MkResult(FALSE, "", None, None, None)
Returned(w, r) == [w |-> w, raised |-> FALSE, res |-> r]
Raised(w) == [w |-> w, raised |-> TRUE, res |-> NoResult]

\* the except clause: ConfigurationResult(success=False, ..., error_message=str(e)),
\* whose own validator runs outside any try
ExceptClause(w, hostname, server_name, msg) ==
    LET r == MkResult(FALSE, hostname, server_name, None, Some(msg)) IN
    IF validate_result_consistency(r) THEN Returned(w, r) ELSE Raised(w)

\* ConfigurationResult(...) built inside the try: a result the validator
\* rejects raises into the except clause
TryReturn(w, r, exc_server_name) ==
    IF validate_result_consistency(r) THEN Returned(w, r)
    ELSE ExceptClause(w, r.hostname, exc_server_name, ConsistencyMessage)

\* the key a server is stored under: its name (None is written as "null")
ServerKey(c) == IF IsSome(c.name) THEN The(c.name) ELSE "null"

(***************************************************************************)
(* The shared tail of the three operations: create the backup if           *)
(* requested, then write the updated configuration.                        *)
(***************************************************************************)
\* (variant) the backup is made whatever no_backup says
BackupStep_IgnoresNoBackup(w, sys, hostname, no_backup, fault) ==
    IF IsSome(get_config_path(hostname, sys)) /\ exists(w.files[hostname])
    THEN create_backup(w.backups[hostname], w.files[hostname], hostname, fault)
    ELSE [exc |-> None, success |-> FALSE, backup_path |-> None, kept |-> w.backups[hostname]]

\* (variant) a backup that reports failure aborts the operation
BackupStep_FailureIsFatal(w, sys, hostname, no_backup, fault) ==
    IF ~no_backup /\ IsSome(get_config_path(hostname, sys)) /\ exists(w.files[hostname])
    THEN IF fault = "backup_fail"
         THEN [exc |-> Some(<<"Backup failed">>), success |-> FALSE, backup_path |-> None,
               kept |-> w.backups[hostname]]
         ELSE create_backup(w.backups[hostname], w.files[hostname], hostname, fault)
    ELSE [exc |-> None, success |-> FALSE, backup_path |-> None, kept |-> w.backups[hostname]]

\* "Create backup if requested"
BackupStep(w, sys, hostname, no_backup, fault) ==
    IF ~no_backup /\ IsSome(get_config_path(hostname, sys)) /\ exists(w.files[hostname])
    THEN create_backup(w.backups[hostname], w.files[hostname], hostname, fault)
    ELSE [exc |-> None, success |-> FALSE, backup_path |-> None, kept |-> w.backups[hostname]]

\* "Write updated configuration": the world after the backup and the write
WriteStep(w, sys, hostname, servers, kept, fault) ==
    LET wr == write_configuration(hostname, sys, w.files[hostname], w.temps[hostname],
                                  w.dirs[hostname], servers, fault)
    IN [ok |-> wr.ok,
        w |-> World([w.files EXCEPT ![hostname] = wr.file],
                    [w.temps EXCEPT ![hostname] = wr.temp],
                    [w.dirs EXCEPT ![hostname] = wr.dir],
                    [w.backups EXCEPT ![hostname] = kept])]

(***************************************************************************)
(* MCPHostConfigurationManager.configure_server                            *)
(***************************************************************************)
\* (variant) the host's validation is consulted after the backup and the write
configure_server_ValidatesLast(w, sys, server_config, hostname, no_backup, fault) ==
    IF IsSome(ResolveError(hostname))
    THEN ExceptClause(w, hostname, None, The(ResolveError(hostname)))
    ELSE
      LET current_config == read_configuration(hostname, sys, w.files[hostname])
          b == BackupStep(w, sys, hostname, no_backup, fault)
          server_name == ServerKey(server_config)
          wr == WriteStep(w, sys, hostname,
                          add_server(current_config, server_name, server_config),
                          b.kept, fault)
      IN IF IsSome(b.exc) THEN ExceptClause(w, hostname, None, The(b.exc))
         ELSE IF ~validate_server_config(hostname, server_config)
         THEN Returned(wr.w, MkResult(FALSE, hostname, None, None,
                                      Some(<<"Server configuration invalid for ", hostname>>)))
         ELSE TryReturn(wr.w,
                        MkResult(wr.ok, hostname, server_config.name, b.backup_path, None),
                        None)

configure_server(w, sys, server_config, hostname, no_backup, fault) ==
    IF IsSome(ResolveError(hostname))
    THEN ExceptClause(w, hostname, None, The(ResolveError(hostname)))
    ELSE IF ~validate_server_config(hostname, server_config)
    THEN Returned(w, MkResult(FALSE, hostname, None, None,
                              Some(<<"Server configuration invalid for ", hostname>>)))
    ELSE
      LET current_config == read_configuration(hostname, sys, w.files[hostname])
          b == BackupStep(w, sys, hostname, no_backup, fault)
          server_name == ServerKey(server_config)
          wr == WriteStep(w, sys, hostname,
                          add_server(current_config, server_name, server_config),
                          b.kept, fault)
      IN IF IsSome(b.exc) THEN ExceptClause(w, hostname, None, The(b.exc))
         ELSE TryReturn(wr.w,
                        MkResult(wr.ok, hostname, server_config.name, b.backup_path, None),
                        None)

(***************************************************************************)
(* MCPHostConfigurationManager.remove_server                               *)
(***************************************************************************)
\* (variant) the existence check is missing
ServerFound_Always(current_config, server_name) == TRUE

\* "Check if server exists": server_name in current_config.servers
ServerFound(current_config, server_name) == server_name \in DOMAIN current_config

remove_server(w, sys, server_name, hostname, no_backup, fault) ==
    IF IsSome(ResolveError(hostname))
    THEN ExceptClause(w, hostname, Some(server_name), The(ResolveError(hostname)))
    ELSE
      LET current_config == read_configuration(hostname, sys, w.files[hostname])
          b == BackupStep(w, sys, hostname, no_backup, fault)
          wr == WriteStep(w, sys, hostname, del_server(current_config, server_name),
                          b.kept, fault)
      IN IF ~ServerFound(current_config, server_name)
         THEN Returned(w, MkResult(FALSE, hostname, Some(server_name), None,
                  Some(<<"Server '", server_name, "' not found in ", hostname,
                         " configuration">>)))
         ELSE IF IsSome(b.exc) THEN ExceptClause(w, hostname, Some(server_name), The(b.exc))
         ELSE TryReturn(wr.w,
                        MkResult(wr.ok, hostname, Some(server_name), b.backup_path, None),
                        Some(server_name))

(***************************************************************************)
(* MCPHostRegistry.detect_available_hosts: the registered hosts, in        *)
(* registration order, whose is_host_available() holds.                    *)
(***************************************************************************)
\* is_host_available: the parent directory of the config file exists; for
\* Claude Code, the .vscode directory of the working directory
is_host_available(h, sys, ds, dvs) ==
    IF h = "claude-code" THEN dvs
    ELSE IsSome(get_config_path(h, sys)) /\ ds[h]

RECURSIVE AvailableFrom(_, _, _, _, _)
AvailableFrom(order, i, sys, ds, dvs) ==
    IF i > Len(order) THEN << >>
    ELSE (IF is_host_available(order[i], sys, ds, dvs) THEN <<order[i]>> ELSE << >>)
         \o AvailableFrom(order, i + 1, sys, ds, dvs)

detect_available_hosts(sys, ds, dvs) ==
    AvailableFrom(RegistrationOrder, 1, sys, ds, dvs)

(***************************************************************************)
(* EnvironmentData: packages is a sequence of [name, configured_hosts],    *)
(* configured_hosts a function from hostnames to the server config         *)
(* recorded for that host.                                                 *)
(***************************************************************************)
\* get_mcp_packages: the packages that have configured hosts
get_mcp_packages(env_data) == SelectSeq(env_data, LAMBDA p : DOMAIN p.configured_hosts # {})

\* host_servers: package name -> server config, for the packages configured
\* on this host (a later package of the same name replaces an earlier one)
RECURSIVE host_servers(_, _, _)
host_servers(packages, hostname, i) ==
    IF i = 0 THEN << >>
    ELSE LET rest == host_servers(packages, hostname, i - 1)
             p == packages[i]
         IN IF hostname \in DOMAIN p.configured_hosts
            THEN Put(rest, p.name, p.configured_hosts[hostname])
            ELSE rest

\* the configuration after "for server_name, server_config in host_servers.items():
\* current_config.add_server(server_name, server_config)"
merge_servers(current, hs) ==
    [n \in (DOMAIN current) \cup (DOMAIN hs) |-> IF n \in DOMAIN hs THEN hs[n] ELSE current[n]]

(***************************************************************************)
(* MCPHostConfigurationManager.sync_environment_to_hosts                   *)
(***************************************************************************)
\* one pass of the loop body for one target host: the world, the result it
\* appends (or the exception leaving the except clause) and the number of
\* servers counted toward servers_synced
SyncHost(w, sys, env_data, hostname, no_backup, fault) ==
    IF IsSome(ResolveError(hostname))
    THEN [out |-> ExceptClause(w, hostname, None, The(ResolveError(hostname))),
          added |-> 0]
    ELSE
      LET pk == get_mcp_packages(env_data)
          hs == host_servers(pk, hostname, Len(pk))
          current_config == read_configuration(hostname, sys, w.files[hostname])
          b == BackupStep(w, sys, hostname, no_backup, fault)
          wr == WriteStep(w, sys, hostname, merge_servers(current_config, hs), b.kept, fault)
      IN IF DOMAIN hs = {}
         THEN [out |-> Returned(w, MkResult(TRUE, hostname, None, None,
                                            Some(<<"No servers to sync">>))),
               added |-> 0]
         ELSE IF IsSome(b.exc)
         THEN [out |-> ExceptClause(w, hostname, None, The(b.exc)), added |-> 0]
         ELSE [out |-> TryReturn(wr.w, MkResult(wr.ok, hostname, None, b.backup_path, None),
                                 None),
               added |-> Cardinality(DOMAIN hs)]

\* (variant) the loop ends at the first host whose result is a failure
RECURSIVE SyncLoop_StopsAtFailure(_, _, _, _, _, _, _, _, _)
SyncLoop_StopsAtFailure(w, sys, env_data, targets, i, no_backup, fault, results, servers_synced) ==
    IF i > Len(targets)
    THEN [w |-> w, raised |-> FALSE, results |-> results, servers_synced |-> servers_synced]
    ELSE LET step == SyncHost(w, sys, env_data, targets[i], no_backup,
                              IF fault.at = i THEN fault.kind ELSE "none")
         IN IF step.out.raised
            THEN [w |-> step.out.w, raised |-> TRUE, results |-> results,
                  servers_synced |-> servers_synced]
            ELSE IF ~step.out.res.success
            THEN [w |-> step.out.w, raised |-> FALSE,
                  results |-> Append(results, step.out.res),
                  servers_synced |-> servers_synced + step.added]
            ELSE SyncLoop_StopsAtFailure(step.out.w, sys, env_data, targets, i + 1,
                                         no_backup, fault, Append(results, step.out.res),
                                         servers_synced + step.added)

\* the loop over target_hosts from position i on; fault strikes at position
\* fault.at only
RECURSIVE SyncLoop(_, _, _, _, _, _, _, _, _)
SyncLoop(w, sys, env_data, targets, i, no_backup, fault, results, servers_synced) ==
    IF i > Len(targets)
    THEN [w |-> w, raised |-> FALSE, results |-> results, servers_synced |-> servers_synced]
    ELSE LET step == SyncHost(w, sys, env_data, targets[i], no_backup,
                              IF fault.at = i THEN fault.kind ELSE "none")
         IN IF step.out.raised
            THEN [w |-> step.out.w, raised |-> TRUE, results |-> results,
                  servers_synced |-> servers_synced]
            ELSE SyncLoop(step.out.w, sys, env_data, targets, i + 1, no_backup, fault,
                          Append(results, step.out.res), servers_synced + step.added)

\* SyncResult
MkSyncResult(results, servers_synced) ==
    LET hosts_updated == Cardinality({i \in 1..Len(results) : results[i].success}) IN
    [success |-> hosts_updated > 0, results |-> results,
     servers_synced |-> servers_synced, hosts_updated |-> hosts_updated]

\* target_hosts is None (not given) or Some(list)
sync_environment_to_hosts(w, sys, dvs, env_data, target_hosts, no_backup, fault) ==
    LET targets == IF IsNone(target_hosts)
                   THEN detect_available_hosts(sys, w.dirs, dvs)
                   ELSE The(target_hosts)
        loop == SyncLoop(w, sys, env_data, targets, 1, no_backup, fault, << >>, 0)
    IN [w |-> loop.w, raised |-> loop.raised,
        sync |-> MkSyncResult(loop.results, loop.servers_synced)]

\* (variant) the filter keeps the successful results
failed_hosts_Successful(sr) ==
    LET kept == SelectSeq(sr.results, LAMBDA r : r.success) IN
    [i \in 1..Len(kept) |-> kept[i].hostname]

\* SyncResult.failed_hosts
failed_hosts(sr) ==
    LET failed == SelectSeq(sr.results, LAMBDA r : ~r.success) IN
    [i \in 1..Len(failed) |-> failed[i].hostname]

\* a float as the fraction it was computed from
Ratio(n, d) == [num |-> n, den |-> d]

\* SyncResult.success_rate: 0.0 without results, else
\* (successful / len(results)) * 100.0
success_rate(sr) ==
    IF sr.results = << >> THEN Ratio(0, 1)
    ELSE Ratio(Len(SelectSeq(sr.results, LAMBDA r : r.success)) * 100, Len(sr.results))

(***************************************************************************)
(* Inputs.                                                                 *)
(***************************************************************************)
\* keyword arguments of the server configs given to the manager
WeatherArgs ==
    [name |-> "weather", command |-> <<"/", "usr/bin/python3">>, args |-> <<"weather.py">>]
DbArgs == [name |-> "db", command |-> <<"python">>]
ApiArgs == [name |-> "api", url |-> <<"http://", "y">>, headers |-> [Authorization |-> "k"]]

\* the server configs a caller can hold: constructed, hence valid
ServerConfigs == {MCPServerConfig(d) : d \in {x \in {WeatherArgs, DbArgs, ApiArgs} : IsValidData(x)}}

ServerNames == {"weather", "db"}

\* environments given to sync_environment_to_hosts
EmptyEnv == << >>
SampleEnv ==
    << [name |-> "weather",
        configured_hosts |-> [h \in {"cursor", "claude-desktop", "gemini"} |->
                                 MCPServerConfig(WeatherArgs)]],
       [name |-> "db", configured_hosts |-> [h \in {"cursor"} |-> MCPServerConfig(DbArgs)]],
       [name |-> "tools", configured_hosts |-> << >>] >>
Envs == {EmptyEnv, SampleEnv}

\* target_hosts arguments: not given, or an explicit list
TargetLists ==
    {None, Some(<< >>), Some(<<"cursor">>), Some(<<UnknownHost, "cursor">>),
     Some(<<"claude-desktop", "gemini">>), Some(<<"vscode", "cursor">>)}

(***************************************************************************)
(* Host files a run can start from.                                        *)
(***************************************************************************)
OldWeatherEntry == [command |-> <<"/", "usr/bin/python3">>, args |-> <<"old.py">>]
\* an entry MCPServerConfig rejects: neither command nor url
BrokenEntry == [disabled |-> "true"]

\* a host file as the host application keeps it: other settings next to the
\* servers, under both root keys ("servers" is VS Code's, "mcpServers" the others')
RichFile ==
    JsonFile("orig",
        JObj([theme |-> JStr("dark"),
              mcpServers |-> JObj([weather |-> OldWeatherEntry, broken |-> BrokenEntry]),
              servers |-> JObj([weather |-> OldWeatherEntry, broken |-> BrokenEntry])]))
\* settings only, no server section yet
SettingsFile == JsonFile("orig", JObj([theme |-> JStr("dark")]))
\* the server section is not an object
OddSectionFile ==
    JsonFile("orig", JObj([theme |-> JStr("dark"), mcpServers |-> JList, servers |-> JList]))
\* valid JSON that is not an object
ListFile == JsonFile("orig", JList)

InitFiles == {Absent, RichFile, SettingsFile, OddSectionFile, ListFile, Garbage}

\* <<file, hosts that have it, every host directory exists, platform>>
Scenarios ==
    {<<f, MCPHostType, TRUE, "Linux">> : f \in InitFiles}
    \cup {<<Absent, {}, FALSE, "Linux">>,
          <<RichFile, {"cursor"}, FALSE, "Linux">>,
          <<RichFile, MCPHostType, TRUE, "Other">>}

(***************************************************************************)
(* State.                                                                  *)
(***************************************************************************)
VARIABLES
    files,      \* host -> its config file
    temps,      \* host -> the file at temp_path
    dirs,       \* host -> the parent directory of the config file exists
    backups,    \* host -> the backups kept for it, oldest first
    system,     \* platform.system()
    dotvscode,  \* the working directory has a .vscode directory
    call,       \* the last manager call and its arguments
    ret,        \* what that call returned, or that it raised
    pre,        \* the world as it was when that call began
    nOps,       \* calls made so far
    wpc,        \* where a write_configuration in progress stands
    job,        \* that write: its host, its servers, the target before it, the bytes it writes
    cfg,        \* an MCPServerConfig under construction: its keyword arguments and what became of them
    cli,        \* the last command-line handler call: its arguments, its exit code, the manager calls it made
    store,      \* one host's config file and the backups kept for it, with the last backup command
    race,       \* two concurrent write_configuration calls on one host: paths, inodes, each writer's position
    envm        \* a HatchEnvironmentManager: its environments, its current environment, its files

vars == <<files, temps, dirs, backups, system, dotvscode, call, ret, pre, nOps, wpc, job, cfg,
          cli, store, race, envm>>

W == World(files, temps, dirs, backups)

NoFault == [kind |-> "none", at |-> 0]
NoCall ==
    [op |-> "none", hostname |-> "", server_config |-> MCPServerConfig(WeatherArgs),
     server_name |-> "", env_data |-> EmptyEnv, target_hosts |-> None,
     no_backup |-> FALSE, fault |-> NoFault]
NoSync == MkSyncResult(<< >>, 0)

\* the targets the last sync call ran over
TargetsOfCall ==
    IF IsNone(call.target_hosts) THEN detect_available_hosts(system, pre.dirs, dotvscode)
    ELSE The(call.target_hosts)
NoRet == [raised |-> FALSE, results |-> << >>, sync |-> NoSync]
NoJob == [host |-> "", servers |-> HostConfiguration, before |-> Absent, new |-> Absent,
          ok |-> FALSE]
NoCfg == [stage |-> "none", data |-> << >>, error |-> {}, obj |-> FromDict(<< >>),
          accepts |-> [h \in MCPHostType |-> FALSE]]

\* a command-line handler not yet called
NoCli ==
    [handler |-> "none", host |-> << >>, server_name |-> "", url |-> None, headers |-> None,
     config_data |-> << >>, dry_run |-> FALSE, approved |-> FALSE, rc |-> 0,
     manager_calls |-> 0]

\* a host with its config file and no backup
NoStore ==
    [file |-> Absent, backups |-> << >>, made |-> 0, op |-> "none", host |-> "",
     backup_file |-> None, older_than_days |-> None, keep_count |-> None,
     dry_run |-> FALSE, approved |-> FALSE, rc |-> 0, manager_calls |-> 0, count |-> 0,
     before |-> [file |-> Absent, backups |-> << >>]]

\* no write in progress
NoRace ==
    [target |-> 0, temp |-> 0, inodes |-> << >>,
     w |-> [p \in {"A", "B"} |-> [pc |-> "idle", fd |-> 0, off |-> 0, ok |-> FALSE]]]

\* HatchEnvironmentManager() on a new environments directory: the files are
\* initialised with the default environment and loaded into the cache
NoEnvm ==
    [environments |-> {"default"}, python |-> {}, current |-> "default",
     environments_file |-> <<{"default"}>>, current_env_file |-> "default",
     op |-> "none", name |-> "", ret |-> "none",
     before |-> [environments |-> {"default"}, current |-> "default"], n |-> 0]

Init ==
    \E sc \in Scenarios :
        /\ files = [h \in MCPHostType |-> IF h \in sc[2] THEN sc[1] ELSE Absent]
        /\ temps = [h \in MCPHostType |-> Absent]
        /\ dirs = [h \in MCPHostType |-> sc[3] \/ (h \in sc[2] /\ exists(sc[1]))]
        /\ backups = [h \in MCPHostType |-> << >>]
        /\ system = sc[4]
        /\ dotvscode = sc[3]
        /\ call = NoCall
        /\ ret = NoRet
        /\ pre = W
        /\ nOps = 0
        /\ wpc = "idle"
        /\ job = NoJob
        /\ cfg = NoCfg
        /\ cli = NoCli
        /\ store = NoStore
        /\ race = NoRace
        /\ envm = NoEnvm

\* the world after a call, and the record of the call
Finish(w, c, r) ==
    /\ files' = w.files
    /\ temps' = w.temps
    /\ dirs' = w.dirs
    /\ backups' = w.backups
    /\ call' = c
    /\ ret' = r
    /\ pre' = W
    /\ nOps' = nOps + 1
    /\ UNCHANGED <<system, dotvscode, cli, store, race, envm, cfg, wpc, job>>

\* the targets the loop of sync_environment_to_hosts runs over
TargetsOf(target_hosts) ==
    IF IsNone(target_hosts) THEN detect_available_hosts(system, dirs, dotvscode)
    ELSE The(target_hosts)

\* A fault is drawn only where it changes the outcome of the call: a step
\* the call never reaches cannot fail.  CanStrike is the part of that
\* condition that is read off the state before the call.
CanStrike(kind, hostname, nb) ==
    /\ hostname \in MCPHostType
    /\ IsSome(get_config_path(hostname, system))
    /\ kind \in BackupFaults => ~nb /\ exists(files[hostname])
    /\ kind = "mkdir" => ~dirs[hostname]
    /\ kind = "verify" => StrategyOf(hostname) = "gemini"

ConfigureServer ==
    /\ nOps < MaxOps
    /\ \E sc \in ServerConfigs, hostname \in Hostnames, nb \in BOOLEAN :
        \E o0 \in {configure_server(W, system, sc, hostname, nb, "none")} :
        \E fault \in {k \in Faults : k = "none" \/ CanStrike(k, hostname, nb)} :
        \E o \in {IF fault = "none" THEN o0
                  ELSE configure_server(W, system, sc, hostname, nb, fault)} :
        /\ fault = "none" \/ o # o0
        /\ Finish(o.w,
                  [NoCall EXCEPT !.op = "configure_server", !.hostname = hostname,
                                 !.server_config = sc, !.no_backup = nb,
                                 !.fault = IF fault = "none" THEN NoFault
                                           ELSE [kind |-> fault, at |-> 1]],
                  [raised |-> o.raised,
                   results |-> IF o.raised THEN << >> ELSE <<o.res>>,
                   sync |-> NoSync])

RemoveServer ==
    /\ nOps < MaxOps
    /\ \E server_name \in ServerNames, hostname \in Hostnames, nb \in BOOLEAN :
        \E o0 \in {remove_server(W, system, server_name, hostname, nb, "none")} :
        \E fault \in {k \in Faults : k = "none" \/ CanStrike(k, hostname, nb)} :
        \E o \in {IF fault = "none" THEN o0
                  ELSE remove_server(W, system, server_name, hostname, nb, fault)} :
        /\ fault = "none" \/ o # o0
        /\ Finish(o.w,
                  [NoCall EXCEPT !.op = "remove_server", !.hostname = hostname,
                                 !.server_name = server_name, !.no_backup = nb,
                                 !.fault = IF fault = "none" THEN NoFault
                                           ELSE [kind |-> fault, at |-> 1]],
                  [raised |-> o.raised,
                   results |-> IF o.raised THEN << >> ELSE <<o.res>>,
                   sync |-> NoSync])

SyncEnvironmentToHosts ==
    /\ nOps < MaxOps
    /\ \E env_data \in Envs, target_hosts \in TargetLists, nb \in BOOLEAN :
        \E o0 \in {sync_environment_to_hosts(W, system, dotvscode, env_data, target_hosts,
                                             nb, NoFault)} :
        \E fault \in {NoFault} \cup
                {f \in [kind : Faults \ {"none"}, at : 1..Len(TargetsOf(target_hosts))] :
                    CanStrike(f.kind, TargetsOf(target_hosts)[f.at], nb)} :
        \E o \in {IF fault = NoFault THEN o0
                  ELSE sync_environment_to_hosts(W, system, dotvscode, env_data,
                                                 target_hosts, nb, fault)} :
        /\ fault = NoFault \/ o # o0
        /\ Finish(o.w,
                  [NoCall EXCEPT !.op = "sync_environment_to_hosts",
                                 !.env_data = env_data, !.target_hosts = target_hosts,
                                 !.no_backup = nb, !.fault = fault],
                  [raised |-> o.raised,
                   results |-> IF o.raised THEN << >> ELSE o.sync.results,
                   sync |-> IF o.raised THEN NoSync ELSE o.sync])

Next == ConfigureServer \/ RemoveServer \/ SyncEnvironmentToHosts

Spec == Init /\ [][Next]_vars

(***************************************************************************)
(* write_configuration step by step, for a process that may be killed      *)
(* between any two steps.  The steps are those of the method: mkdir, read  *)
(* the existing file, open the temp file, dump into it, (Gemini) verify,   *)
(* replace.  A killed process leaves the files as they are.                *)
(***************************************************************************)
\* a file just opened for writing: created or truncated
Empty == [kind |-> "text", fmt |-> "empty", doc |-> JNull]

InFlight == {"mkdir", "read", "open", "dump", "flush", "verify", "replace", "replaced"}

\* the files of the job's host as write_configuration's outcome record
HostNow == [ok |-> FALSE, file |-> files[job.host], temp |-> temps[job.host],
            dir |-> dirs[job.host]]

\* the step wrote the files of the job's host
SetHost(o) ==
    /\ files' = [files EXCEPT ![job.host] = o.file]
    /\ temps' = [temps EXCEPT ![job.host] = o.temp]

\* write_configuration(config) is entered with the configuration
\* configure_server builds: the current one plus the new server
WStart ==
    /\ wpc \in {"idle", "returned", "crashed"}
    /\ nOps < MaxOps
    /\ \E h \in MCPHostType, sc \in ServerConfigs :
        LET servers == add_server(read_configuration(h, system, files[h]), ServerKey(sc), sc)
            whole == write_configuration(h, system, files[h], temps[h], dirs[h], servers,
                                         "none")
        IN /\ job' = [host |-> h, servers |-> servers, before |-> files[h],
                      new |-> whole.file, ok |-> FALSE]
           /\ wpc' = IF IsNone(get_config_path(h, system)) THEN "returned" ELSE "mkdir"
           /\ call' = [NoCall EXCEPT !.op = "write_configuration", !.hostname = h,
                                     !.server_config = sc]
    /\ pre' = W
    /\ nOps' = nOps + 1
    /\ UNCHANGED <<files, temps, dirs, backups, system, dotvscode, cli, store, race, envm, cfg, ret>>

\* config_path.parent.mkdir(parents=True, exist_ok=True)
WMkdir ==
    /\ wpc = "mkdir"
    /\ dirs' = [dirs EXCEPT ![job.host] = TRUE]
    /\ wpc' = "read"
    /\ UNCHANGED <<files, temps, backups, system, dotvscode, cli, store, race, envm, cfg, call, ret, pre, nOps, job>>

\* existing_config = json.load(f), or {}; assigning the managed key to a
\* document that is no object raises, and the method returns False
WRead ==
    /\ wpc = "read"
    /\ wpc' = IF existing_config(files[job.host]).t = "obj" THEN "open" ELSE "returned"
    /\ UNCHANGED <<files, temps, dirs, backups, system, dotvscode, cli, store, race, envm, cfg, call, ret, pre, nOps, job>>

\* open(temp_path, 'w')
WOpen ==
    /\ wpc = "open"
    /\ SetHost(PutAtTempPath(HostNow, job.host, Empty))
    /\ wpc' = "dump"
    /\ UNCHANGED <<dirs, backups, system, dotvscode, cli, store, race, envm, cfg, call, ret, pre, nOps, job>>

\* json.dump: some of the bytes are in the file
WDump ==
    /\ wpc = "dump"
    /\ SetHost(PutAtTempPath(HostNow, job.host, Partial))
    /\ wpc' = "flush"
    /\ UNCHANGED <<dirs, backups, system, dotvscode, cli, store, race, envm, cfg, call, ret, pre, nOps, job>>

\* the with block ends: all the bytes are in the file
WFlush ==
    /\ wpc = "flush"
    /\ SetHost(PutAtTempPath(HostNow, job.host,
                             json_dump(updated_config(job.host,
                                                      existing_config(job.before),
                                                      job.servers))))
    /\ wpc' = IF StrategyOf(job.host) = "gemini" THEN "verify" ELSE "replace"
    /\ UNCHANGED <<dirs, backups, system, dotvscode, cli, store, race, envm, cfg, call, ret, pre, nOps, job>>

\* Gemini: json.load(temp_path) must succeed before the replace
WVerify ==
    /\ wpc = "verify"
    /\ wpc' = "replace"
    /\ UNCHANGED <<files, temps, dirs, backups, system, dotvscode, cli, store, race, envm, cfg, call, ret, pre, nOps, job>>

\* temp_path.replace(config_path)
WReplace ==
    /\ wpc = "replace"
    /\ SetHost(Replace(HostNow, job.host))
    /\ wpc' = "replaced"
    /\ UNCHANGED <<dirs, backups, system, dotvscode, cli, store, race, envm, cfg, call, ret, pre, nOps, job>>

\* return True
WReturn ==
    /\ wpc = "replaced"
    /\ wpc' = "returned"
    /\ job' = [job EXCEPT !.ok = TRUE]
    /\ UNCHANGED <<files, temps, dirs, backups, system, dotvscode, cli, store, race, envm, cfg, call, ret, pre, nOps>>

\* the process is killed
Crash ==
    /\ wpc \in InFlight
    /\ wpc' = "crashed"
    /\ UNCHANGED <<files, temps, dirs, backups, system, dotvscode, cli, store, race, envm, cfg, call, ret, pre, nOps, job>>

NextCrash ==
    \/ WStart \/ WMkdir \/ WRead \/ WOpen \/ WDump \/ WFlush \/ WVerify \/ WReplace
    \/ WReturn \/ Crash

SpecCrash == Init /\ [][NextCrash]_vars

(***************************************************************************)
(* Constructing an MCPServerConfig and validate_server_config of the       *)
(* strategies, as pure functions of their inputs: a run starts from        *)
(* keyword arguments, constructs the config and, when one is produced,     *)
(* asks every strategy whether it accepts it.                              *)
(***************************************************************************)
\* values a caller can pass for each field
CommandValues ==
    {<< >>, <<" ">>, <<"python">>, <<"/", "usr/bin/python">>, <<" ", "python", " ">>}
UrlValues == {<< >>, <<"http://", "host/mcp">>, <<"https://", "host/mcp">>, <<"ftp://", "host">>}
ArgsValues == {<< >>, <<"a">>}
EnvValues == {<< >>, [KEY |-> "v"]}
HeadersValues == {<< >>, [Authorization |-> "k"]}

\* a field left out, or given one of the values
Opt(S) == {None} \cup {Some(v) : v \in S}

\* the keyword arguments that are given
ToDict(r) == [k \in {j \in DOMAIN r : IsSome(r[j])} |-> The(r[k])]

Kwargs ==
    {ToDict([command |-> c, url |-> u, args |-> a, env |-> e, headers |-> hd]) :
        c \in Opt(CommandValues), u \in Opt(UrlValues), a \in Opt(ArgsValues),
        e \in Opt(EnvValues), hd \in Opt(HeadersValues)}

\* no host has a config file, and the manager has not been called
ManagerIdle ==
    /\ files = [h \in MCPHostType |-> Absent]
    /\ temps = [h \in MCPHostType |-> Absent]
    /\ dirs = [h \in MCPHostType |-> TRUE]
    /\ backups = [h \in MCPHostType |-> << >>]
    /\ system = "Linux"
    /\ dotvscode = TRUE
    /\ call = NoCall
    /\ ret = NoRet
    /\ pre = W
    /\ nOps = 0
    /\ wpc = "idle"
    /\ job = NoJob

InitConfig ==
    /\ ManagerIdle
    /\ cli = NoCli
    /\ store = NoStore
    /\ race = NoRace
    /\ envm = NoEnvm
    /\ \E d \in Kwargs : cfg = [NoCfg EXCEPT !.stage = "args", !.data = d]

\* MCPServerConfig(**data): the object, or the validation error
Construct ==
    /\ cfg.stage = "args"
    /\ cfg' = IF IsValidData(cfg.data)
              THEN [cfg EXCEPT !.stage = "built", !.obj = MCPServerConfig(cfg.data)]
              ELSE [cfg EXCEPT !.stage = "rejected", !.error = ValidationError(cfg.data)]
    /\ UNCHANGED <<files, temps, dirs, backups, system, dotvscode, cli, store, race, envm, call, ret, pre, nOps,
                   wpc, job>>

\* strategy.validate_server_config(config), for the strategy of every host
ValidateServerConfig ==
    /\ cfg.stage = "built"
    /\ cfg' = [cfg EXCEPT !.stage = "validated",
                          !.accepts = [h \in MCPHostType |->
                                          validate_server_config(h, cfg.obj)]]
    /\ UNCHANGED <<files, temps, dirs, backups, system, dotvscode, cli, store, race, envm, call, ret, pre, nOps,
                   wpc, job>>

NextConfig == Construct \/ ValidateServerConfig

SpecConfig == InitConfig /\ [][NextConfig]_vars

(***************************************************************************)
(* HatchEnvironmentManager: the environments kept in the cache             *)
(* (_environments, _current_env_name) and in the two files of the          *)
(* environments directory.  An environment name is valid when it is not    *)
(* empty and holds only alphanumeric characters and underscores.  The      *)
(* environment may make a file write fail: at open(), which leaves the     *)
(* file as it was, or while the content is written, which leaves the file  *)
(* truncated.                                                              *)
(***************************************************************************)
MaxEnvOps == 3
EnvNameInputs == {"default", "dev", "test_env", "my-env", ""}
NameIsValid(name) == name \in {"default", "dev", "test_env"}
EnvFaults == {"none", "open", "write"}

\* _save_environments: json.dump of the cache into environments.json;
\* raises HatchEnvironmentError when the write fails
_save_environments(e, fault) ==
    CASE fault = "open" -> [e EXCEPT !.ret = "raised"]
      [] fault = "write" -> [e EXCEPT !.environments_file = << >>, !.ret = "raised"]
      [] OTHER -> [e EXCEPT !.environments_file = <<e.environments>>, !.ret = "True"]

\* set_current_environment: False for an environment that does not exist
\* and when the write of current_env fails; the cache is updated after
\* the file
set_current_environment(e, env_name, fault) ==
    IF env_name \notin e.environments THEN [e EXCEPT !.ret = "False"]
    ELSE CASE fault = "open" -> [e EXCEPT !.ret = "False"]
           [] fault = "write" -> [e EXCEPT !.current_env_file = "", !.ret = "False"]
           [] OTHER -> [e EXCEPT !.current_env_file = env_name, !.current = env_name,
                                 !.ret = "True"]

\* create_environment: python_env says whether a Python environment was
\* created for it (python_environment in its metadata)
create_environment(e, name, python_env, fault) ==
    IF ~NameIsValid(name) THEN [e EXCEPT !.ret = "False"]
    ELSE IF name \in e.environments THEN [e EXCEPT !.ret = "False"]
    ELSE _save_environments(
            [e EXCEPT !.environments = @ \cup {name},
                      !.python = IF python_env THEN @ \cup {name} ELSE @],
            fault)

\* remove_environment: the result of the switch to "default" is not looked at
remove_environment(e, name, cur_fault, save_fault) ==
    IF name = "default" THEN [e EXCEPT !.ret = "False"]
    ELSE IF name \notin e.environments THEN [e EXCEPT !.ret = "False"]
    ELSE
      LET switched == IF name = e.current
                      THEN set_current_environment(e, "default", cur_fault)
                      ELSE e
      IN _save_environments(
            [switched EXCEPT !.environments = @ \ {name}, !.python = @ \ {name}],
            save_fault)

\* the record of a call: what was asked, and the cache as it was before
EnvCall(e, op, name) ==
    envm' = [e EXCEPT !.op = op, !.name = name, !.n = envm.n + 1,
                      !.before = [environments |-> envm.environments,
                                  current |-> envm.current]]

EnvFrame ==
    UNCHANGED <<files, temps, dirs, backups, system, dotvscode, call, ret, pre, nOps, wpc,
                job, cfg, cli, store, race>>

CreateEnvironment ==
    /\ envm.n < MaxEnvOps
    /\ \E name \in EnvNameInputs, python_env \in BOOLEAN, fault \in EnvFaults :
        EnvCall(create_environment(envm, name, python_env, fault), "create_environment", name)
    /\ EnvFrame

RemoveEnvironment ==
    /\ envm.n < MaxEnvOps
    /\ \E name \in EnvNameInputs, cur_fault \in EnvFaults, save_fault \in EnvFaults :
        EnvCall(remove_environment(envm, name, cur_fault, save_fault),
                "remove_environment", name)
    /\ EnvFrame

SetCurrentEnvironment ==
    /\ envm.n < MaxEnvOps
    /\ \E env_name \in EnvNameInputs, fault \in EnvFaults :
        EnvCall(set_current_environment(envm, env_name, fault),
                "set_current_environment", env_name)
    /\ EnvFrame

NextEnv == CreateEnvironment \/ RemoveEnvironment \/ SetCurrentEnvironment

InitEnv ==
    /\ ManagerIdle
    /\ cfg = NoCfg
    /\ cli = NoCli
    /\ store = NoStore
    /\ race = NoRace
    /\ envm = NoEnvm

SpecEnv == InitEnv /\ [][NextEnv]_vars

(***************************************************************************)
(* Two invocations that run write_configuration for the same host at the   *)
(* same time (the Claude and Cursor strategies share this code shape).     *)
(* Both compute the same temp_path, config_path.with_suffix('.tmp').  The  *)
(* file system is modelled with inodes: a path names an inode, open(.., 'w')*)
(* creates the inode or truncates the one the path names, every writer     *)
(* writes through its own descriptor at its own offset, and replace()      *)
(* makes the target path name the inode the temp path named.  What         *)
(* json.dump produces reaches the file in one or more write calls; a       *)
(* document is the sequence of those pieces.                               *)
(***************************************************************************)
Writers == {"A", "B"}
Orig == <<"O1", "O2">>
Doc(p) == IF p = "A" THEN <<"A1", "A2", "A3">> ELSE <<"B1", "B2">>
Hole == "\\0"

\* the bytes of a file after a write of one piece at offset off
WriteAt(content, off, piece) ==
    LET padded == IF off > Len(content)
                  THEN content \o [i \in 1..(off - Len(content)) |-> Hole]
                  ELSE content
    IN [i \in 1..(IF off + 1 > Len(padded) THEN off + 1 ELSE Len(padded)) |->
            IF i = off + 1 THEN piece ELSE padded[i]]

RaceFrame ==
    UNCHANGED <<files, temps, dirs, backups, system, dotvscode, call, ret, pre, nOps, wpc,
                job, cfg, cli, store, envm>>

\* "if config_path.exists(): ... existing_config = json.load(f)"
RRead(p) ==
    /\ race.w[p].pc = "read"
    /\ race' = [race EXCEPT !.w[p].pc = "open"]
    /\ RaceFrame

\* "with open(temp_path, 'w') as f": creates the file or truncates it
ROpen(p) ==
    /\ race.w[p].pc = "open"
    /\ race' = IF race.temp = 0
               THEN [race EXCEPT !.inodes = Append(@, << >>),
                                 !.temp = Len(race.inodes) + 1,
                                 !.w[p].fd = Len(race.inodes) + 1,
                                 !.w[p].off = 0, !.w[p].pc = "dump"]
               ELSE [race EXCEPT !.inodes[race.temp] = << >>,
                                 !.w[p].fd = race.temp,
                                 !.w[p].off = 0, !.w[p].pc = "dump"]
    /\ RaceFrame

\* json.dump(updated_config, f, indent=2): one piece reaches the file
RDump(p) ==
    /\ race.w[p].pc = "dump"
    /\ race.w[p].off < Len(Doc(p))
    /\ race' = [race EXCEPT
                    !.inodes[race.w[p].fd] = WriteAt(@, race.w[p].off, Doc(p)[race.w[p].off + 1]),
                    !.w[p].off = @ + 1]
    /\ RaceFrame

\* the end of the with block: the file is closed
RClose(p) ==
    /\ race.w[p].pc = "dump"
    /\ race.w[p].off = Len(Doc(p))
    /\ race' = [race EXCEPT !.w[p].pc = "replace"]
    /\ RaceFrame

\* temp_path.replace(config_path); "return True", or FileNotFoundError and
\* "return False" when the temp path names nothing any more
RReplace(p) ==
    /\ race.w[p].pc = "replace"
    /\ race' = IF race.temp = 0
               THEN [race EXCEPT !.w[p].pc = "done", !.w[p].ok = FALSE]
               ELSE [race EXCEPT !.target = race.temp, !.temp = 0,
                                 !.w[p].pc = "done", !.w[p].ok = TRUE]
    /\ RaceFrame

NextRace == \E p \in Writers : RRead(p) \/ ROpen(p) \/ RDump(p) \/ RClose(p) \/ RReplace(p)

InitRace ==
    /\ ManagerIdle
    /\ cfg = NoCfg
    /\ cli = NoCli
    /\ store = NoStore
    /\ envm = NoEnvm
    /\ race = [target |-> 1, temp |-> 0, inodes |-> <<Orig>>,
               w |-> [p \in Writers |-> [pc |-> "read", fd |-> 0, off |-> 0, ok |-> FALSE]]]

SpecRace == InitRace /\ [][NextRace]_vars

(***************************************************************************)
(* The command-line handlers of cli_hatch.py for direct management.  One   *)
(* process handles one command.  A KEY=VALUE argument is the tuple         *)
(* <<key, "=", value>>, an argument without "=" a tuple of one word.  A    *)
(* handler leaves the world, its exit code, the number of calls it made to *)
(* the configuration manager and the keyword arguments it built.           *)
(***************************************************************************)
\* request_confirmation: auto_approve, or the answer read from the terminal
request_confirmation(auto_approve, response) == auto_approve \/ response \in {"y", "yes"}

\* parse_env_vars and parse_headers: the KEY=VALUE items as a dict, items
\* without "=" are skipped, a later item replaces an earlier one
parse_env_vars(env_list) ==
    LET items == IF IsSome(env_list) THEN The(env_list) ELSE << >>
        idx == {i \in 1..Len(items) : Len(items[i]) = 3 /\ items[i][2] = "="}
        last(k) == CHOOSE i \in idx : items[i][1] = k
                        /\ \A j \in idx : items[j][1] = k => j <= i
    IN [k \in {items[i][1] : i \in idx} |-> items[last(k)][3]]
parse_headers(headers_list) == parse_env_vars(headers_list)

\* config_data of handle_mcp_configure: a keyword argument that is None is
\* left out, as MCPServerConfig treats it like one not given
config_data(server_name, command, args, env, url, headers) ==
    LET keys == {"name", "args", "env"}
                \cup (IF IsSome(command) THEN {"command"} ELSE {})
                \cup (IF IsSome(url) THEN {"url"} ELSE {})
                \cup (IF Truthy(url) /\ parse_headers(headers) # << >>
                      THEN {"headers"} ELSE {})
    IN [k \in keys |->
            CASE k = "name" -> server_name
              [] k = "command" -> The(command)
              [] k = "args" -> args
              [] k = "env" -> parse_env_vars(env)
              [] k = "url" -> The(url)
              [] OTHER -> parse_headers(headers)]

CliOut(w, rc, manager_calls, data) ==
    [w |-> w, rc |-> rc, manager_calls |-> manager_calls, config_data |-> data]

\* the exit code for a manager result
ExitCode(o) == IF ~o.raised /\ o.res.success THEN 0 ELSE 1

\* (variant) the manager is called although dry_run is set
handle_mcp_configure_IgnoresDryRun(w, sys, host, server_name, command, args, env, url, headers, no_backup, dry_run, approved) ==
    LET data == config_data(server_name, command, args, env, url, headers)
        o == configure_server(w, sys, MCPServerConfig(data), host, no_backup, "none")
    IN IF host \notin MCPHostType THEN CliOut(w, 1, 0, << >>)
       ELSE IF ~IsValidData(data) THEN CliOut(w, 1, 0, data)
       ELSE IF ~approved THEN CliOut(w, 0, 0, data)
       ELSE CliOut(o.w, ExitCode(o), 1, data)

handle_mcp_configure(w, sys, host, server_name, command, args, env, url, headers, no_backup, dry_run, approved) ==
    LET data == config_data(server_name, command, args, env, url, headers)
        o == configure_server(w, sys, MCPServerConfig(data), host, no_backup, "none")
    IN IF host \notin MCPHostType THEN CliOut(w, 1, 0, << >>)
       ELSE IF ~IsValidData(data) THEN CliOut(w, 1, 0, data)
       ELSE IF dry_run THEN CliOut(w, 0, 0, data)
       ELSE IF ~approved THEN CliOut(w, 0, 0, data)
       ELSE CliOut(o.w, ExitCode(o), 1, data)

handle_mcp_remove(w, sys, host, server_name, no_backup, dry_run, approved) ==
    LET o == remove_server(w, sys, server_name, host, no_backup, "none")
    IN IF host \notin MCPHostType THEN CliOut(w, 1, 0, << >>)
       ELSE IF dry_run THEN CliOut(w, 0, 0, << >>)
       ELSE IF ~approved THEN CliOut(w, 0, 0, << >>)
       ELSE CliOut(o.w, ExitCode(o), 1, << >>)

\* parse_host_list: no hosts for an empty argument, the detected hosts for
\* "all", else the comma-separated hosts; an unknown host raises ValueError
parse_host_list(host_arg, sys, ds, dvs) ==
    IF host_arg = << >> THEN [raised |-> FALSE, hosts |-> << >>]
    ELSE IF host_arg = <<"all">>
         THEN [raised |-> FALSE, hosts |-> detect_available_hosts(sys, ds, dvs)]
    ELSE IF \E i \in 1..Len(host_arg) : host_arg[i] \notin MCPHostType
         THEN [raised |-> TRUE, hosts |-> << >>]
    ELSE [raised |-> FALSE, hosts |-> host_arg]

\* "Perform removal on each host": the world, the successes and the calls
\* after hosts i.. ; an exception of the manager ends the loop
RECURSIVE RemoveLoop(_, _, _, _, _, _, _, _)
RemoveLoop(w, sys, server_name, target_hosts, i, no_backup, success_count, calls) ==
    IF i > Len(target_hosts)
    THEN [w |-> w, raised |-> FALSE, success_count |-> success_count, calls |-> calls]
    ELSE LET o == remove_server(w, sys, server_name, target_hosts[i], no_backup, "none")
         IN IF o.raised
            THEN [w |-> o.w, raised |-> TRUE, success_count |-> success_count,
                  calls |-> calls + 1]
            ELSE RemoveLoop(o.w, sys, server_name, target_hosts, i + 1, no_backup,
                            success_count + (IF o.res.success THEN 1 ELSE 0), calls + 1)

handle_mcp_remove_server(w, sys, dvs, server_name, hosts, env, no_backup, dry_run, approved) ==
    LET parsed == parse_host_list(The(hosts), sys, w.dirs, dvs)
        l == RemoveLoop(w, sys, server_name, parsed.hosts, 1, no_backup, 0, 0)
    IN IF ~(IsSome(hosts) /\ The(hosts) # << >>) THEN CliOut(w, 1, 0, << >>)
       ELSE IF parsed.raised THEN CliOut(w, 1, 0, << >>)
       ELSE IF parsed.hosts = << >> THEN CliOut(w, 1, 0, << >>)
       ELSE IF dry_run THEN CliOut(w, 0, 0, << >>)
       ELSE IF ~approved THEN CliOut(w, 0, 0, << >>)
       ELSE CliOut(l.w, IF ~l.raised /\ l.success_count = Len(parsed.hosts) THEN 0 ELSE 1,
                   l.calls, << >>)

\* handle_mcp_remove_host: MCPHostConfigurationManager has no method
\* remove_host_configuration, so the call raises AttributeError
handle_mcp_remove_host(w, host_name, no_backup, dry_run, approved) ==
    IF host_name \notin MCPHostType THEN CliOut(w, 1, 0, << >>)
    ELSE IF dry_run THEN CliOut(w, 0, 0, << >>)
    ELSE IF ~approved THEN CliOut(w, 0, 0, << >>)
    ELSE CliOut(w, 1, 0, << >>)

\* inputs of the handlers
CliHosts == {"cursor", "claude-desktop", "bogus"}
CliCommands == {None, Some(<<"python">>), Some(<<" ">>), Some(<<"/", "usr/bin/python">>)}
CliArgs == {<< >>, <<"a">>}
CliEnvs == {None, Some(<< <<"KEY", "=", "v">>, <<"novalue">> >>)}
CliUrls == {None, Some(<<"http://", "host/mcp">>)}
CliHeaders == {None, Some(<< <<"Authorization", "=", "k">> >>)}
CliHostArgs ==
    {None, Some(<< >>), Some(<<"all">>), Some(<<"cursor">>),
     Some(<<"cursor", "claude-desktop">>), Some(<<"cursor", "bogus">>)}
Responses == {"y", ""}

\* the world a handler leaves and the record of its call
CliFinish(o, handler, host, server_name, url, headers, dry_run, approved) ==
    /\ files' = o.w.files
    /\ temps' = o.w.temps
    /\ dirs' = o.w.dirs
    /\ backups' = o.w.backups
    /\ pre' = W
    /\ cli' = [handler |-> handler, host |-> host, server_name |-> server_name,
               url |-> url, headers |-> headers, config_data |-> o.config_data,
               dry_run |-> dry_run, approved |-> approved, rc |-> o.rc,
               manager_calls |-> o.manager_calls]
    /\ UNCHANGED <<system, dotvscode, call, ret, nOps, wpc, job, cfg, store, race, envm>>

HandleMcpConfigure ==
    /\ cli.handler = "none"
    /\ \E host \in CliHosts, server_name \in ServerNames, command \in CliCommands,
          args \in CliArgs, env \in CliEnvs, url \in CliUrls, headers \in CliHeaders,
          no_backup \in BOOLEAN, dry_run \in BOOLEAN, auto_approve \in BOOLEAN,
          response \in Responses :
        CliFinish(handle_mcp_configure(W, system, host, server_name, command, args, env,
                                       url, headers, no_backup, dry_run,
                                       request_confirmation(auto_approve, response)),
                  "handle_mcp_configure", <<host>>, server_name, url, headers, dry_run,
                  request_confirmation(auto_approve, response))

HandleMcpRemove ==
    /\ cli.handler = "none"
    /\ \E host \in CliHosts, server_name \in ServerNames, no_backup \in BOOLEAN,
          dry_run \in BOOLEAN, auto_approve \in BOOLEAN, response \in Responses :
        CliFinish(handle_mcp_remove(W, system, host, server_name, no_backup, dry_run,
                                    request_confirmation(auto_approve, response)),
                  "handle_mcp_remove", <<host>>, server_name, None, None, dry_run,
                  request_confirmation(auto_approve, response))

HandleMcpRemoveServer ==
    /\ cli.handler = "none"
    /\ \E hosts \in CliHostArgs, server_name \in ServerNames, no_backup \in BOOLEAN,
          dry_run \in BOOLEAN, auto_approve \in BOOLEAN, response \in Responses :
        CliFinish(handle_mcp_remove_server(W, system, dotvscode, server_name, hosts, None,
                                           no_backup, dry_run,
                                           request_confirmation(auto_approve, response)),
                  "handle_mcp_remove_server", IF IsSome(hosts) THEN The(hosts) ELSE << >>,
                  server_name, None, None, dry_run,
                  request_confirmation(auto_approve, response))

HandleMcpRemoveHost ==
    /\ cli.handler = "none"
    /\ \E host_name \in CliHosts, no_backup \in BOOLEAN, dry_run \in BOOLEAN,
          auto_approve \in BOOLEAN, response \in Responses :
        CliFinish(handle_mcp_remove_host(W, host_name, no_backup, dry_run,
                                         request_confirmation(auto_approve, response)),
                  "handle_mcp_remove_host", <<host_name>>, "", None, None, dry_run,
                  request_confirmation(auto_approve, response))

NextCli == HandleMcpConfigure \/ HandleMcpRemove \/ HandleMcpRemoveServer \/ HandleMcpRemoveHost

SpecCli == Init /\ [][NextCli]_vars

(***************************************************************************)
(* The backup commands.  One host's config file and the backups kept for   *)
(* it; a backup is [name, content, age_days], the name derived from the    *)
(* time it was made, and the backups are kept oldest first.  The backup    *)
(* manager's operations follow section 4.5 of the specification; the       *)
(* handlers are those of cli_hatch.py.  A behaviour is the history of the  *)
(* host's backups followed by one backup command.                          *)
(***************************************************************************)
MaxBackups == 3
MaxAge == 2
StoreHost == "cursor"
FileContents == {SettingsFile, RichFile}

\* ListBackups: the backups, newest first
list_backups(bs) == [i \in 1..Len(bs) |-> bs[Len(bs) + 1 - i]]

\* GetLatestBackup: the newest backup's name, or none
_get_latest_backup(bs) == IF bs = << >> THEN None ELSE Some(bs[Len(bs)].name)

BackupNames(bs) == {bs[i].name : i \in 1..Len(bs)}
BackupNamed(bs, name) == bs[CHOOSE i \in 1..Len(bs) : bs[i].name = name]

\* RestoreBackup: overwrites the live config file with the named backup's
\* contents; false when the named backup does not exist
restore_backup(file, bs, filename) ==
    IF filename \notin BackupNames(bs) THEN [ok |-> FALSE, file |-> file]
    ELSE [ok |-> TRUE, file |-> BackupNamed(bs, filename).content]

\* the subsequence of bs whose names are not in gone
RECURSIVE Without(_, _)
Without(bs, gone) ==
    IF bs = << >> THEN << >>
    ELSE (IF bs[1].name \in gone THEN << >> ELSE <<bs[1]>>) \o Without(Tail(bs), gone)

\* the names of the backups older than d days, and of those beyond the k newest
OlderThan(bs, d) == {bs[i].name : i \in {j \in 1..Len(bs) : bs[j].age_days > d}}
Beyond(bs, k) == {list_backups(bs)[i].name : i \in {j \in 1..Len(bs) : j > k}}

\* CleanBackups: deletes the union of the two sets for the criteria given
\* and returns the number of files deleted
clean_backups(bs, older_than_days, keep_count) ==
    LET gone == (IF IsSome(older_than_days) THEN OlderThan(bs, The(older_than_days)) ELSE {})
                \cup (IF IsSome(keep_count) THEN Beyond(bs, The(keep_count)) ELSE {})
    IN [kept |-> Without(bs, gone), count |-> Cardinality(gone)]

\* truthiness of an optional int (None and 0 are falsy)
TruthyInt(o) == IsSome(o) /\ The(o) # 0

BkOut(file, bs, rc, calls, count) ==
    [file |-> file, backups |-> bs, rc |-> rc, manager_calls |-> calls, count |-> count]

\* (variant) the newest backup is restored whatever backup_file names
handle_mcp_backup_restore_AlwaysLatest(file, bs, host, backup_file, dry_run, approved) ==
    LET r == restore_backup(file, bs, The(_get_latest_backup(bs))) IN
    IF host \notin MCPHostType THEN BkOut(file, bs, 1, 0, 0)
    ELSE IF IsNone(_get_latest_backup(bs)) THEN BkOut(file, bs, 1, 0, 0)
    ELSE IF dry_run \/ ~approved THEN BkOut(file, bs, 0, 0, 0)
    ELSE BkOut(r.file, bs, IF r.ok THEN 0 ELSE 1, 1, 0)

handle_mcp_backup_restore(file, bs, host, backup_file, dry_run, approved) ==
    LET name == IF IsSome(backup_file) THEN backup_file ELSE _get_latest_backup(bs)
        r == restore_backup(file, bs, The(name))
    IN IF host \notin MCPHostType THEN BkOut(file, bs, 1, 0, 0)
       ELSE IF IsSome(backup_file) /\ The(backup_file) \notin BackupNames(bs)
            THEN BkOut(file, bs, 1, 0, 0)
       ELSE IF IsNone(name) THEN BkOut(file, bs, 1, 0, 0)
       ELSE IF dry_run THEN BkOut(file, bs, 0, 0, 0)
       ELSE IF ~approved THEN BkOut(file, bs, 0, 0, 0)
       ELSE BkOut(r.file, bs, IF r.ok THEN 0 ELSE 1, 1, 0)

\* to_clean of handle_mcp_backup_clean, as the set of names in it
unique_to_clean(bs, older_than_days, keep_count) ==
    (IF TruthyInt(older_than_days) THEN OlderThan(bs, The(older_than_days)) ELSE {})
    \cup (IF TruthyInt(keep_count) /\ Len(bs) > The(keep_count)
          THEN Beyond(bs, The(keep_count)) ELSE {})

handle_mcp_backup_clean(file, bs, host, older_than_days, keep_count, dry_run, approved) ==
    LET c == clean_backups(bs,
                 IF TruthyInt(older_than_days) THEN older_than_days ELSE None,
                 IF TruthyInt(keep_count) THEN keep_count ELSE None)
    IN IF host \notin MCPHostType THEN BkOut(file, bs, 1, 0, 0)
       ELSE IF ~TruthyInt(older_than_days) /\ ~TruthyInt(keep_count)
            THEN BkOut(file, bs, 1, 0, 0)
       ELSE IF list_backups(bs) = << >> THEN BkOut(file, bs, 0, 0, 0)
       ELSE IF unique_to_clean(bs, older_than_days, keep_count) = {}
            THEN BkOut(file, bs, 0, 0, 0)
       ELSE IF dry_run THEN BkOut(file, bs, 0, 0, 0)
       ELSE IF ~approved THEN BkOut(file, bs, 0, 0, 0)
       ELSE BkOut(file, c.kept, 0, 1, c.count)

StoreFrame ==
    UNCHANGED <<files, temps, dirs, backups, system, dotvscode, call, ret, pre, nOps, wpc,
                job, cfg, cli, race, envm>>

\* CreateBackup: copies the config file into the host's backup directory
CreateBackup ==
    /\ store.op = "none"
    /\ store.made < MaxBackups
    /\ exists(store.file)
    /\ store' = [store EXCEPT
                    !.backups = Append(@, [name |-> store.made + 1, content |-> store.file,
                                           age_days |-> 0]),
                    !.made = @ + 1]
    /\ StoreFrame

\* any later change of the host's config file
ChangeFile ==
    /\ store.op = "none"
    /\ \E f \in FileContents \ {store.file} : store' = [store EXCEPT !.file = f]
    /\ StoreFrame

\* a day passes: every backup is a day older
DayPasses ==
    /\ store.op = "none"
    /\ store.backups # << >>
    /\ \A i \in 1..Len(store.backups) : store.backups[i].age_days < MaxAge
    /\ store' = [store EXCEPT
                    !.backups = [i \in 1..Len(@) |-> [@[i] EXCEPT !.age_days = @ + 1]]]
    /\ StoreFrame

StoreFinish(o, op, host, backup_file, older_than_days, keep_count, dry_run, approved) ==
    /\ store' = [store EXCEPT
                    !.file = o.file, !.backups = o.backups, !.op = op, !.host = host,
                    !.backup_file = backup_file, !.older_than_days = older_than_days,
                    !.keep_count = keep_count, !.dry_run = dry_run, !.approved = approved,
                    !.rc = o.rc, !.manager_calls = o.manager_calls, !.count = o.count,
                    !.before = [file |-> store.file, backups |-> store.backups]]
    /\ StoreFrame

HandleMcpBackupRestore ==
    /\ store.op = "none"
    /\ \E host \in {StoreHost, "bogus"}, backup_file \in Opt(1..MaxBackups),
       dry_run \in BOOLEAN, auto_approve \in BOOLEAN :
        StoreFinish(handle_mcp_backup_restore(store.file, store.backups, host, backup_file,
                                              dry_run, request_confirmation(auto_approve, "")),
                    "handle_mcp_backup_restore", host, backup_file, None, None, dry_run,
                    request_confirmation(auto_approve, ""))

HandleMcpBackupClean ==
    /\ store.op = "none"
    /\ \E host \in {StoreHost, "bogus"}, older_than_days \in Opt(0..MaxAge),
       keep_count \in Opt(0..2), dry_run \in BOOLEAN, auto_approve \in BOOLEAN :
        StoreFinish(handle_mcp_backup_clean(store.file, store.backups, host, older_than_days,
                                            keep_count, dry_run,
                                            request_confirmation(auto_approve, "")),
                    "handle_mcp_backup_clean", host, None, older_than_days, keep_count,
                    dry_run, request_confirmation(auto_approve, ""))

NextBackup ==
    CreateBackup \/ ChangeFile \/ DayPasses \/ HandleMcpBackupRestore \/ HandleMcpBackupClean

InitBackup ==
    /\ ManagerIdle
    /\ cfg = NoCfg
    /\ cli = NoCli
    /\ race = NoRace
    /\ envm = NoEnvm
    /\ \E f \in FileContents : store = [NoStore EXCEPT !.file = f]

SpecBackup == InitBackup /\ [][NextBackup]_vars

(***************************************************************************)
(* Properties.  Each is stated on the state a manager call leaves: call    *)
(* holds its arguments, ret what it returned, pre the world it started in. *)
(***************************************************************************)
IsObjectFile(f) == f.kind = "json" /\ f.doc.t = "obj"

Called(op) == call.op = op
AnyCall == call.op # "none"

\* the positions of ret.results that are about host h
ResultsFor(h) == {i \in 1..Len(ret.results) : ret.results[i].hostname = h}

\* the host a fault of the last call struck
StruckHost ==
    IF Called("sync_environment_to_hosts") THEN TargetsOfCall[call.fault.at]
    ELSE call.hostname

C2_FailedWriteLeavesTarget ==
    /\ call.fault.kind \in WriteFaults =>
          /\ ~ret.raised
          /\ \E i \in ResultsFor(StruckHost) : ~ret.results[i].success
          /\ files[StruckHost] = pre.files[StruckHost]
    /\ \A h \in MCPHostType : \A i \in ResultsFor(h) :
          ~ret.results[i].success => files[h] = pre.files[h]

\* the rename failed after the temp file was fully written, on a host that
\* had a config file
C2_Witness ==
    /\ call.fault.kind = "replace"
    /\ exists(pre.files[StruckHost])
    /\ temps[StruckHost].kind = "json"
    /\ \E i \in ResultsFor(StruckHost) : ~ret.results[i].success

\* C4 (as claimed): when the host's existing config file cannot be parsed,
\* configure_server ends in a failure result and the file is unchanged.
C4_UnparseableFileIsPreserved ==
    (/\ Called("configure_server")
     /\ call.fault.kind = "none"
     /\ call.hostname \in MCPHostType
     /\ exists(pre.files[call.hostname])
     /\ ~Loads(pre.files[call.hostname]))
    => /\ ~ret.raised
       /\ ~ret.results[1].success
       /\ files[call.hostname] = pre.files[call.hostname]

\* C5: a backup reported in a result holds the host file as it was before
\* the operation's write; with no_backup, or without an existing config
\* file, no backup is made and backup_created is false; an operation that
\* wrote the file of a host with an existing file, with backups enabled and
\* working, reports a backup.
C5_BackupHoldsPreWriteContent ==
    \A h \in MCPHostType :
        /\ backups[h] \in {pre.backups[h], Append(pre.backups[h], pre.files[h])}
        /\ (call.no_backup \/ ~exists(pre.files[h])) => backups[h] = pre.backups[h]
        /\ \A i \in ResultsFor(h) :
             LET r == ret.results[i] IN
             /\ r.backup_created = IsSome(r.backup_path)
             /\ r.backup_created =>
                   /\ r.backup_path = Some(<<h, Len(backups[h])>>)
                   /\ backups[h] = Append(pre.backups[h], pre.files[h])
             /\ (call.no_backup \/ ~exists(pre.files[h])) => ~r.backup_created
             /\ (/\ r.success /\ IsNone(r.error_message)
                 /\ ~call.no_backup /\ exists(pre.files[h])
                 /\ call.fault.kind \notin BackupFaults) => r.backup_created

\* a call with backups enabled rewrote an existing host file and reported
\* the backup, which holds the old bytes
C5_Witness ==
    \E h \in MCPHostType : \E i \in ResultsFor(h) :
        /\ ~call.no_backup
        /\ pre.files[h] = RichFile
        /\ files[h] # RichFile
        /\ ret.results[i].backup_created
        /\ backups[h] = <<RichFile>>

SetFields(c) ==
    [k \in {j \in {"command", "args", "env", "url", "headers"} : IsSome(c[j])} |-> The(c[k])]

\* C7 (as claimed): configure_server on a host with no config file creates
\* the parent directory and writes a file whose managed root key holds
\* exactly one entry, under the server's name, made of exactly the
\* command/args/env/url/headers fields that were set.
C7_FreshFileHoldsExactlyTheServer ==
    (/\ Called("configure_server")
     /\ ~ret.raised
     /\ ret.results[1].success
     /\ ~exists(pre.files[call.hostname]))
    => LET h == call.hostname
           sc == call.server_config
       IN /\ dirs[h]
          /\ IsObjectFile(files[h])
          /\ DOMAIN files[h].doc.v = {get_config_key(h)}
          /\ DOMAIN files[h].doc.v[get_config_key(h)].v = {The(sc.name)}
          /\ files[h].doc.v[get_config_key(h)].v[The(sc.name)] = SetFields(sc)

\* C8: remove_server for a name that is not in the host's current
\* configuration returns success=false with a non-empty error_message and
\* leaves the host file, the temp file and the backups as they were.
C8_RemoveAbsentChangesNothing ==
    (/\ Called("remove_server")
     /\ call.hostname \in MCPHostType
     /\ call.server_name \notin
            DOMAIN read_configuration(call.hostname, system, pre.files[call.hostname]))
    => /\ ~ret.raised
       /\ ~ret.results[1].success
       /\ IsSome(ret.results[1].error_message)
       /\ The(ret.results[1].error_message) # << >>
       /\ ~ret.results[1].backup_created
       /\ files = pre.files
       /\ temps = pre.temps
       /\ backups = pre.backups

\* remove_server of a name the existing, readable host file does not hold
C8_Witness ==
    /\ Called("remove_server")
    /\ call.hostname \in MCPHostType
    /\ ~call.no_backup
    /\ pre.files[call.hostname] = RichFile
    /\ call.server_name = "db"
    /\ ~ret.raised
    /\ ~ret.results[1].success

\* C9 (as claimed): configure_server, remove_server and
\* sync_environment_to_hosts always return a result, whatever exception is
\* raised inside them.
C9_NeverRaises == ~ret.raised

\* C10: every ConfigurationResult the manager returns, directly or in
\* SyncResult.results, has a non-empty error_message when success is false.
C10_FailureHasMessage ==
    \A i \in 1..Len(ret.results) :
        ~ret.results[i].success =>
            /\ IsSome(ret.results[i].error_message)
            /\ The(ret.results[i].error_message) # << >>

\* write_configuration returned False without raising (the rename failed)
\* and the manager returned a failure result
C10_Witness ==
    /\ call.fault.kind = "replace"
    /\ \E i \in ResultsFor(StruckHost) :
          /\ ~ret.results[i].success
          /\ ret.results[i].error_message = Some(ConsistencyMessage)

\* a write that ran to its end left what write_configuration as a whole yields
StepsAgreeWithCall ==
    wpc = "returned" =>
        /\ files[job.host] = job.new
        /\ job.ok = write_configuration(job.host, system, job.before, pre.temps[job.host],
                                        pre.dirs[job.host], job.servers, "none").ok

\* C3: if the single writer is killed at any point of write_configuration,
\* the host's config file holds either its complete content from before
\* the call or the complete new content.
C3_CrashLeavesOldOrNew ==
    wpc = "crashed" => files[job.host] = job.before \/ files[job.host] = job.new

\* the writer was killed while the new bytes were half written, over an
\* existing config file
C3_Witness ==
    /\ wpc = "crashed"
    /\ job.before = RichFile
    /\ job.new # job.before
    /\ temps[job.host] = Partial

\* the pieces a message is formatted from
Tokens(msg) == {msg[i] : i \in 1..Len(msg)}

\* C11 (as claimed): configure_server with a hostname that is no registered
\* host returns a failure result whose message names the host and lists the
\* valid hosts, and leaves every host file and every backup as it was.
C11_UnknownHostListsValidHosts ==
    (/\ Called("configure_server")
     /\ call.hostname \notin Registered)
    => /\ ~ret.raised
       /\ ~ret.results[1].success
       /\ IsSome(ret.results[1].error_message)
       /\ call.hostname \in Tokens(The(ret.results[1].error_message))
       /\ Registered \subseteq Tokens(The(ret.results[1].error_message))
       /\ files = pre.files
       /\ temps = pre.temps
       /\ backups = pre.backups

\* C12: when validate_server_config of the target host's strategy rejects
\* the server config, configure_server returns a failure result, creates
\* no backup and leaves the host's config file, its temp file and its
\* directory as they were.
C12_RejectedConfigTouchesNothing ==
    (/\ Called("configure_server")
     /\ call.hostname \in MCPHostType
     /\ ~validate_server_config(call.hostname, call.server_config))
    => /\ ~ret.raised
       /\ ~ret.results[1].success
       /\ ~ret.results[1].backup_created
       /\ files = pre.files
       /\ temps = pre.temps
       /\ dirs = pre.dirs
       /\ backups = pre.backups

\* a relative command was offered to a Claude host that has a config file,
\* with backups enabled
C12_Witness ==
    /\ Called("configure_server")
    /\ call.hostname \in {"claude-desktop", "claude-code"}
    /\ call.server_config = MCPServerConfig(DbArgs)
    /\ ~call.no_backup
    /\ pre.files[call.hostname] = RichFile
    /\ ~ret.raised
    /\ ~ret.results[1].success

\* C13: of the valid local server configs, the Claude-family strategies
\* (claude-desktop, claude-code) accept exactly those whose command is an
\* absolute path; the Cursor, LM Studio, VS Code and Gemini strategies
\* accept every valid config, local or remote.
C13_PerHostAcceptance ==
    cfg.stage = "validated" =>
        /\ \A h \in {"claude-desktop", "claude-code"} :
              is_local_server(cfg.obj) =>
                  (cfg.accepts[h] <=> Head(Strip(cfg.data.command)) = "/")
        /\ \A h \in {"cursor", "lmstudio", "vscode", "gemini"} : cfg.accepts[h]

\* a relative command, rejected by a Claude host and accepted by Cursor
C13_Witness ==
    /\ cfg.stage = "validated"
    /\ "command" \in DOMAIN cfg.data
    /\ cfg.data.command = <<"python">>
    /\ ~cfg.accepts["claude-desktop"]
    /\ cfg.accepts["cursor"]

\* C14 (as claimed): validate_server_config of the Claude Desktop strategy
\* returns false for every URL-based server config.
C14_ClaudeDesktopRejectsRemote ==
    (cfg.stage = "validated" /\ is_remote_server(cfg.obj))
    => ~cfg.accepts["claude-desktop"]

\* C15: MCPServerConfig is constructed exactly when one of command and url
\* is given and not the other, a given command is not blank, a given url
\* starts with http:// or https://, args and env come only with command and
\* headers only with url; otherwise a validation error is raised.  Every
\* constructed config is local or remote and not both.
C15_ConstructionRule ==
    LET d == cfg.data
        given(k) == k \in DOMAIN d
        claimed ==
            /\ given("command") # given("url")
            /\ given("command") => \E i \in 1..Len(d.command) : d.command[i] # " "
            /\ given("url") => (d.url # << >> /\ d.url[1] \in {"http://", "https://"})
            /\ given("args") => given("command")
            /\ given("env") => given("command")
            /\ given("headers") => given("url")
    IN cfg.stage \in {"built", "rejected", "validated"} =>
          /\ (cfg.stage # "rejected") <=> claimed
          /\ cfg.stage = "rejected" => cfg.error # {}
          /\ cfg.stage # "rejected" =>
                is_local_server(cfg.obj) # is_remote_server(cfg.obj)

\* a remote config with headers was constructed
C15_Witness ==
    /\ cfg.stage = "built"
    /\ DOMAIN cfg.data = {"url", "headers"}
    /\ is_remote_server(cfg.obj)
    /\ ~is_local_server(cfg.obj)

\* the hostnames of the results, in order
ResultHosts == [i \in 1..Len(ret.results) |-> ret.results[i].hostname]

\* the servers the environment of the last sync call holds for host h
ServersFor(h) ==
    LET pk == get_mcp_packages(call.env_data) IN DOMAIN host_servers(pk, h, Len(pk))

\* C16 (as claimed): SyncResult.success is true exactly when at least one
\* target host had its configuration written successfully by this sync; a
\* run in which every host failed or was skipped for having nothing to sync
\* reports success=false.
C16_SuccessIffSomeHostWritten ==
    (Called("sync_environment_to_hosts") /\ ~ret.raised)
    => (ret.sync.success <=>
            \E i \in 1..Len(ret.results) :
                /\ ret.results[i].success
                /\ ServersFor(ret.results[i].hostname) # {}
                /\ files[ret.results[i].hostname].fmt = "indent2")

\* C17 (as claimed): when target_hosts is not given, or is the empty list,
\* sync_environment_to_hosts runs over the hosts detect_available_hosts()
\* returns.
C17_EmptyTargetsMeanDetectedHosts ==
    (/\ Called("sync_environment_to_hosts")
     /\ ~ret.raised
     /\ call.target_hosts \in {None, Some(<< >>)})
    => ResultHosts = detect_available_hosts(system, pre.dirs, dotvscode)

\* C18: the results of a SyncResult are one per entry of the target host
\* list, in the list's order and with the entry's hostname, whether the
\* host was unknown, skipped, failed or updated.
C18_OneResultPerTarget ==
    (Called("sync_environment_to_hosts") /\ ~ret.raised)
    => ResultHosts = TargetsOfCall

\* an unknown host came first and failed; the host after it was updated
C18_Witness ==
    /\ Called("sync_environment_to_hosts")
    /\ call.target_hosts = Some(<<UnknownHost, "cursor">>)
    /\ Len(ret.results) = 2
    /\ ~ret.results[1].success
    /\ ret.results[2].success
    /\ files["cursor"] # pre.files["cursor"]

\* C19 (as claimed): in sync_environment_to_hosts every target host is
\* processed as it would be alone, whatever happened to the hosts before
\* it (unknown host, exception, failed write), and the files written for
\* earlier hosts stay written.
C19_HostsAreIndependent ==
    Called("sync_environment_to_hosts") =>
        \A i \in 1..Len(TargetsOfCall) :
            LET h == TargetsOfCall[i]
                alone == SyncHost(pre, system, call.env_data, h, call.no_backup,
                                  IF call.fault.at = i THEN call.fault.kind ELSE "none")
            IN h \in MCPHostType => files[h] = alone.out.w.files[h]

\* the k-th position, in order, of the results that failed
KthFailed(k) ==
    LET idx == {i \in 1..Len(ret.results) : ~ret.results[i].success}
    IN CHOOSE i \in idx : Cardinality({j \in idx : j < i}) = k - 1

\* C20: failed_hosts of a SyncResult is the hostnames of its results with
\* success=false, in order; success_rate is the number of successful
\* results over the number of results, times 100, and 0 without results.
C20_DerivedSyncFields ==
    (Called("sync_environment_to_hosts") /\ ~ret.raised)
    => LET fh == failed_hosts(ret.sync)
           rate == success_rate(ret.sync)
           total == Len(ret.results)
           good == Cardinality({i \in 1..total : ret.results[i].success})
       IN /\ Len(fh) = total - good
          /\ \A k \in 1..Len(fh) : fh[k] = ret.results[KthFailed(k)].hostname
          /\ rate.den > 0
          /\ IF total = 0 THEN rate.num = 0
             ELSE rate.num * total = good * 100 * rate.den

\* one host of two failed: failed_hosts names it and the rate is 50
C20_Witness ==
    /\ Called("sync_environment_to_hosts")
    /\ ~ret.raised
    /\ Len(ret.results) = 2
    /\ failed_hosts(ret.sync) = <<UnknownHost>>
    /\ success_rate(ret.sync).num = 50 * success_rate(ret.sync).den

\* the servers merged into the hosts of the successful results 1..n
RECURSIVE SyncedUpTo(_)
SyncedUpTo(n) ==
    IF n = 0 THEN 0
    ELSE SyncedUpTo(n - 1)
         + (IF ret.results[n].success
            THEN Cardinality(ServersFor(ret.results[n].hostname)) ELSE 0)

\* C21 (as claimed): servers_synced of a SyncResult is the sum, over the
\* target hosts whose result is successful, of the servers merged into
\* that host; servers merged for a host whose write then fails are not
\* counted.
C21_ServersSyncedCountsWrittenOnly ==
    (Called("sync_environment_to_hosts") /\ ~ret.raised)
    => ret.sync.servers_synced = SyncedUpTo(Len(ret.results))

\* the entries under the managed root key of host h's file, when the file
\* is an object that holds an object there
HasSection(f, h) ==
    /\ IsObjectFile(f)
    /\ get_config_key(h) \in DOMAIN f.doc.v
    /\ f.doc.v[get_config_key(h)].t = "obj"
Section(f, h) == f.doc.v[get_config_key(h)].v

\* the server names the last call names for host h
NamedFor(h) ==
    CASE Called("configure_server") -> {ServerKey(call.server_config)}
      [] Called("remove_server") -> {call.server_name}
      [] OTHER -> ServersFor(h)

\* C26 (as claimed): a successful configure_server, remove_server or sync
\* changes, under the managed root key of a host's file, only the entries
\* it names; every other entry that was in the file before the call, also
\* one that is no valid server config, is there unchanged after it.
C26_OtherEntriesUntouched ==
    \A h \in MCPHostType : \A i \in ResultsFor(h) :
        (/\ Called("configure_server") \/ Called("remove_server")
               \/ Called("sync_environment_to_hosts")
         /\ ret.results[i].success
         /\ HasSection(pre.files[h], h))
        => /\ HasSection(files[h], h)
           /\ \A m \in (DOMAIN Section(pre.files[h], h)) \ NamedFor(h) :
                  /\ m \in DOMAIN Section(files[h], h)
                  /\ Section(files[h], h)[m] = Section(pre.files[h], h)[m]

\* C28 (as claimed): for every strategy, when write_configuration fails
\* after its temp file was created (while serializing, verifying or
\* renaming), no temp file is left when the call returns.
C28_FailedWriteRemovesTemp ==
    (/\ call.fault.kind \in {"dump", "verify", "replace"}
     /\ \E i \in ResultsFor(StruckHost) : ~ret.results[i].success)
    => ~exists(temps[StruckHost])

\* what the keyword arguments of the construction give
Given(k) == k \in DOMAIN cfg.data
BlankCommand == Given("command") /\ \A i \in 1..Len(cfg.data.command) : cfg.data.command[i] = " "
BadUrl == Given("url") /\ (cfg.data.url = << >> \/ cfg.data.url[1] \notin {"http://", "https://"})

\* C29 (as claimed): MCPServerConfig validation applies its rules in the
\* order (a) both command and url, (b) neither, (c) blank command, (d) url
\* without accepted scheme, (e) args or env without command, (f) headers
\* without url, and the validation error identifies the first rule the
\* input violates in that order.
C29_ClaimedRuleOrder ==
    cfg.stage = "rejected" =>
        IF Given("command") /\ Given("url") THEN cfg.error = {"both"}
        ELSE IF ~Given("command") /\ ~Given("url") THEN cfg.error = {"neither"}
        ELSE IF BlankCommand THEN cfg.error = {"command"}
        ELSE IF BadUrl THEN cfg.error = {"url"}
        ELSE IF (Given("args") \/ Given("env")) /\ ~Given("command")
             THEN cfg.error \in {{"args"}, {"env"}}
        ELSE cfg.error = {"headers"}

\* C29 (amended): the field rules come first, (c) blank command and (d)
\* url without accepted scheme, and the error reports every field rule
\* that is violated; only when none is, the error identifies the first
\* violated rule in the order (b) neither, (a) both, (e) args without
\* command, then env without command, (f) headers without url.
C29_FieldRulesFirst ==
    cfg.stage = "rejected" =>
        IF BlankCommand \/ BadUrl
        THEN cfg.error = (IF BlankCommand THEN {"command"} ELSE {})
                         \cup (IF BadUrl THEN {"url"} ELSE {})
        ELSE IF ~Given("command") /\ ~Given("url") THEN cfg.error = {"neither"}
        ELSE IF Given("command") /\ Given("url") THEN cfg.error = {"both"}
        ELSE IF Given("args") /\ ~Given("command") THEN cfg.error = {"args"}
        ELSE IF Given("env") /\ ~Given("command") THEN cfg.error = {"env"}
        ELSE cfg.error = {"headers"}

\* a blank command came together with a well-formed url: the blank
\* command is what the error reports
C29_Witness ==
    /\ cfg.stage = "rejected"
    /\ BlankCommand
    /\ Given("url")
    /\ ~BadUrl
    /\ cfg.error = {"command"}


\* C30: after any sequence of create_environment, remove_environment and
\* set_current_environment calls the current environment exists (removing
\* the current environment switches to "default", setting an environment
\* that does not exist fails and changes nothing) and "default" is never
\* removed.
C30_CurrentEnvironmentExists ==
    /\ envm.current \in envm.environments
    /\ "default" \in envm.environments
    /\ (envm.op = "remove_environment" /\ envm.name = envm.before.current
            /\ envm.name \notin envm.environments)
        => envm.current = "default"
    /\ (envm.op = "set_current_environment" /\ envm.name \notin envm.before.environments)
        => envm.ret = "False" /\ envm.current = envm.before.current


\* C27: while two invocations write the same host's configuration
\* concurrently, the host's config file is at every moment a complete
\* document: the one it held before, or the one written by one of the two.
C27_TargetAlwaysComplete ==
    /\ race.target # 0
    /\ race.inodes[race.target] \in {Orig} \cup {Doc(p) : p \in Writers}


\* the last handler call named a valid host: one host of MCPHostType, or for
\* handle_mcp_remove_server a non-empty list of such hosts
CliHostValid ==
    /\ cli.handler # "none"
    /\ cli.host # << >>
    /\ \A i \in 1..Len(cli.host) : cli.host[i] \in MCPHostType

\* C24 (as claimed): with dry_run=True and a valid host every one of
\* handle_mcp_configure, handle_mcp_remove, handle_mcp_remove_server and
\* handle_mcp_remove_host returns 0 without invoking the configuration
\* manager, and no host config file and no backup is created, changed or
\* deleted.
C24_DryRunReturnsZero ==
    (CliHostValid /\ cli.dry_run)
    => /\ cli.rc = 0
       /\ cli.manager_calls = 0
       /\ W = pre

\* C24 (amended): with dry_run=True and a valid host none of the four
\* handlers invokes the configuration manager and no host config file and
\* no backup is created, changed or deleted; the three remove handlers
\* return 0, and handle_mcp_configure returns 0 when it is given a command
\* that is not blank and no url, and 1 otherwise.
C24_DryRunTouchesNothing ==
    (CliHostValid /\ cli.dry_run)
    => /\ cli.manager_calls = 0
       /\ W = pre
       /\ cli.rc = IF /\ cli.handler = "handle_mcp_configure"
                      /\ \/ "url" \in DOMAIN cli.config_data
                         \/ "command" \notin DOMAIN cli.config_data
                         \/ Strip(cli.config_data["command"]) = << >>
                   THEN 1 ELSE 0

\* a dry run of handle_mcp_configure with approval, for a server the host
\* accepts, on a host that has a config file
C24_Witness ==
    /\ cli.handler = "handle_mcp_configure"
    /\ cli.dry_run
    /\ cli.approved
    /\ cli.rc = 0
    /\ cli.host = <<"cursor">>
    /\ exists(files["cursor"])

\* C25: handle_mcp_configure called with a url, with approval and without
\* dry_run, on a host that accepts remote servers (Cursor) returns 0, and
\* the host's file then holds an entry for the server with that url and
\* the given headers.
C25_UrlConfiguresRemoteServer ==
    (/\ cli.handler = "handle_mcp_configure"
     /\ Truthy(cli.url)
     /\ ~cli.dry_run
     /\ cli.approved
     /\ cli.host = <<"cursor">>)
    => /\ cli.rc = 0
       /\ HasSection(files["cursor"], "cursor")
       /\ cli.server_name \in DOMAIN Section(files["cursor"], "cursor")
       /\ LET entry == Section(files["cursor"], "cursor")[cli.server_name] IN
            /\ "url" \in DOMAIN entry
            /\ entry["url"] = The(cli.url)
            /\ parse_headers(cli.headers) # << >>
                => "headers" \in DOMAIN entry
                   /\ entry["headers"] = parse_headers(cli.headers)


\* the backup the last restore command names: backup_file, or the newest
RestoredName ==
    IF IsSome(store.backup_file) THEN store.backup_file
    ELSE _get_latest_backup(store.before.backups)

\* the last command was carried out: a valid host, no dry run, approval
Carried(op) ==
    /\ store.op = op
    /\ store.host \in MCPHostType
    /\ ~store.dry_run
    /\ store.approved

\* C22: a restore of a backup that was made of the host's config file
\* leaves the config file with exactly the bytes it had when that backup
\* was made, whatever happened to the file in between, and the backup
\* itself still exists.
C22_RestoreReproducesBackedUpFile ==
    (/\ Carried("handle_mcp_backup_restore")
     /\ IsSome(RestoredName)
     /\ The(RestoredName) \in BackupNames(store.before.backups))
    => /\ store.rc = 0
       /\ store.file = BackupNamed(store.before.backups, The(RestoredName)).content
       /\ store.backups = store.before.backups

\* an older backup is restored over a file that was changed since
C22_Witness ==
    /\ Carried("handle_mcp_backup_restore")
    /\ store.backup_file = Some(1)
    /\ Len(store.before.backups) >= 2
    /\ store.before.backups[1].name = 1
    /\ store.before.backups[1].content # store.before.backups[2].content
    /\ store.before.file # store.before.backups[1].content
    /\ store.rc = 0

\* C23: a clean command deletes exactly the backups older than
\* older_than_days, when that is given, together with the backups beyond
\* the keep_count newest, when that is given, each once, and the count
\* returned is the number of backups deleted.
C23_CleanDeletesTheUnion ==
    (/\ Carried("handle_mcp_backup_clean")
     /\ IsSome(store.older_than_days) \/ IsSome(store.keep_count))
    => LET bs == store.before.backups
           gone == (IF IsSome(store.older_than_days)
                    THEN {bs[i].name : i \in {j \in 1..Len(bs) :
                                bs[j].age_days > The(store.older_than_days)}}
                    ELSE {})
                   \cup (IF IsSome(store.keep_count)
                         THEN {bs[i].name : i \in {j \in 1..Len(bs) :
                                    Len(bs) - j >= The(store.keep_count)}}
                         ELSE {})
       IN /\ BackupNames(store.backups) = BackupNames(bs) \ gone
          /\ store.count = Cardinality(gone)

====
